---- MODULE Spec2Model ----
(***************************************************************************)
(* State-machine model of the pairwise-ranking engine of Shelf Showdown:   *)
(* the comparison ledger and the Elo replay (modules/comparisons.js,       *)
(* modules/ranking.js, modules/db.js) and the offline write-back queue     *)
(* (modules/sheets.js).                                                    *)
(***************************************************************************)
EXTENDS Integers, Sequences, FiniteSets, TLC

VARIABLES
    books,          \* IndexedDB store 'books': id -> book record
    comparisons,    \* IndexedDB store 'comparisons', in key (insertion) order
    calls,          \* one record per asynchronous ledger task (its position and locals)
    replays,        \* number of processAllComparisons runs started so far
    ledgerAtCall,   \* history: per task, the ledger as it was when the task was called
    queue,          \* SyncQueue.queue
    storage,        \* localStorage['sheetsSyncQueue'] (the persisted blob)
    isProcessing,   \* SyncQueue.isProcessing
    online,         \* navigator.onLine
    pass,           \* one record per process() invocation slot
    direct,         \* the appendBooksToSheets / updateBookInSheets call made by the application
    issued,         \* number of application write calls made so far
    hist,           \* history of the sync queue (attempt counts, drops, auth failures)
    sheet,          \* the remote spreadsheet: its rows, the header first
    resolve,        \* the resolveSyncConflicts call (its position, arguments and locals)
    rankings,       \* the 'rankings' object store: the stored snapshots, oldest first
    lookup,         \* the last getBookRank / getBookByRank call and what it returned
    assigned,       \* history: every id an import has given out, with the key of its book
    remote,         \* the write requests the remote spreadsheet has carried out, oldest first
    sync,           \* the syncToSheets call (its position and locals)
    retry,          \* the retryWithBackoff call (its position and locals)
    form            \* the add-book form: its fields and its status line

ledgerVars == <<books, comparisons, calls, replays, ledgerAtCall>>
queueVars == <<queue, storage, isProcessing, online, pass, direct, issued, hist>>
sheetVars == <<sheet, resolve>>
rankingVars == <<rankings, lookup>>
importVars == <<assigned>>
remoteVars == <<remote, sync, retry, form>>
vars == <<books, comparisons, calls, replays, ledgerAtCall,
          queue, storage, isProcessing, online, pass, direct, issued, hist,
          sheet, resolve, rankings, lookup, assigned, remote, sync, retry, form>>

(***************************************************************************)
(* Bounds of the model.                                                    *)
(***************************************************************************)
NumBooks == 3
MaxReplays == 2
NumCallers == 2
MaxLedger == 2

BookIds == 1..NumBooks
Callers == 1..NumCallers

(***************************************************************************)
(* modules/ranking.js: the Elo update rule.                                *)
(***************************************************************************)
INITIAL_RATING == 1500
K_FACTOR == 32

\* A rating field that is undefined is the empty tuple; a number r is <<r>>.
NoRating == <<>>
IsNumber(rating) == rating # NoRating

\* EloThresholds[k] is the largest integer x with
\* Math.round(K_FACTOR * calculateExpectedScore(rB, rA)) >= k where x = rA - rB,
\* i.e. Math.round(32 / (1 + 10^(x/400))) >= k (floating-point evaluation of
\* calculateExpectedScore tabulated at its 32 rounding thresholds).
EloThresholds ==
    << 719, 523, 428, 364, 314, 273, 237, 205, 176, 149, 124, 100, 77, 54, 32, 10,
       -11, -33, -55, -78, -101, -125, -150, -177, -206, -238, -274, -315, -365,
       -429, -524, -720 >>

\* Math.round(K_FACTOR * (1 - calculateExpectedScore(ratingA, ratingB)))
EloGain(ratingA, ratingB) ==
    Cardinality({k \in 1..K_FACTOR : ratingA - ratingB <= EloThresholds[k]})

\* updateRatings that moves the rating of book A only.
updateRatingsOneSided(ratingA, ratingB, outcome2) ==
    LET delta == (K_FACTOR * outcome2) \div 2 - K_FACTOR + EloGain(ratingA, ratingB)
    IN  [ratingA |-> ratingA + delta, ratingB |-> ratingB]

\* updateRatings with the change applied the other way round.
updateRatingsReversed(ratingA, ratingB, outcome2) ==
    LET delta == (K_FACTOR * outcome2) \div 2 - K_FACTOR + EloGain(ratingA, ratingB)
    IN  [ratingA |-> ratingA - delta, ratingB |-> ratingB + delta]

\* updateRatings(ratingA, ratingB, outcome); the outcome is passed doubled
\* (2 = A wins, 1 = draw, 0 = B wins) to stay within the integers.
updateRatings(ratingA, ratingB, outcome2) ==
    LET delta == (K_FACTOR * outcome2) \div 2 - K_FACTOR + EloGain(ratingA, ratingB)
    IN  [ratingA |-> ratingA + delta, ratingB |-> ratingB - delta]

(***************************************************************************)
(* modules/comparisons.js: the Comparison class and the ledger.            *)
(***************************************************************************)
\* The Comparison constructor throws for these arguments.
ComparisonThrows(bookAId, bookBId, winnerId) ==
    \/ bookAId = bookBId
    \/ (winnerId # bookAId /\ winnerId # bookBId)

\* The constructor without its swap: the pair is kept in the order given.
ComparisonUnordered(bookAId, bookBId, winnerId) ==
    [bookA |-> bookAId, bookB |-> bookBId, winner |-> winnerId]

\* The object the constructor builds otherwise (smaller id first).
Comparison(bookAId, bookBId, winnerId) ==
    IF bookAId > bookBId
    THEN [bookA |-> bookBId, bookB |-> bookAId, winner |-> winnerId]
    ELSE [bookA |-> bookAId, bookB |-> bookBId, winner |-> winnerId]

validateComparison(comparison) ==
    /\ ~(comparison.bookA = 0 \/ comparison.bookB = 0 \/ comparison.winner = 0)
    /\ comparison.bookA # comparison.bookB
    /\ (comparison.winner = comparison.bookA \/ comparison.winner = comparison.bookB)

\* getComparisonsByBookIds(bookId1, bookId2) over the ledger read by getAllComparisons
getComparisonsByBookIds(allComparisons, bookId1, bookId2) ==
    SelectSeq(allComparisons,
              LAMBDA comp : \/ (comp.bookA = bookId1 /\ comp.bookB = bookId2)
                            \/ (comp.bookA = bookId2 /\ comp.bookB = bookId1))

\* getComparisonsByBookIds(bookId1): bookId2 is null, the comparisons that involve
\* bookId1.
getComparisonsByBookId(allComparisons, bookId1) ==
    SelectSeq(allComparisons, LAMBDA comp : comp.bookA = bookId1 \/ comp.bookB = bookId1)

\* The duplicate check without the reversed lookup: the pair is looked up in the
\* order given only.
checkDuplicateOneOrder(allComparisons, bookA, bookB) ==
    \E i \in 1..Len(allComparisons) :
        allComparisons[i].bookA = bookB /\ allComparisons[i].bookB = bookA

checkDuplicateComparison(allComparisons, bookA, bookB) ==
    LET a == IF bookA > bookB THEN bookB ELSE bookA
        b == IF bookA > bookB THEN bookA ELSE bookB
    IN  Len(getComparisonsByBookIds(allComparisons, a, b)) > 0

(***************************************************************************)
(* processAllComparisons: the in-memory pass over the ledger.              *)
(***************************************************************************)
\* The loop body with the default assigned unconditionally.
ApplyComparisonReset(booksMap, compData) ==
    IF compData.bookA \notin DOMAIN booksMap \/ compData.bookB \notin DOMAIN booksMap
    THEN booksMap
    ELSE LET outcome2 == IF compData.winner = compData.bookA THEN 2 ELSE 0
             result == updateRatings(INITIAL_RATING, INITIAL_RATING, outcome2)
         IN  [booksMap EXCEPT ![compData.bookA].rating = <<result.ratingA>>,
                              ![compData.bookB].rating = <<result.ratingB>>]

\* The loop body without the `continue`: a missing book is played as an unrated one
\* and the book that exists takes the result.
ApplyComparisonNoSkip(booksMap, compData) ==
    LET rating(id) == IF id \in DOMAIN booksMap /\ IsNumber(booksMap[id].rating)
                      THEN booksMap[id].rating[1] ELSE INITIAL_RATING
        outcome2 == IF compData.winner = compData.bookA THEN 2 ELSE 0
        result == updateRatings(rating(compData.bookA), rating(compData.bookB), outcome2)
    IN  [id \in DOMAIN booksMap |->
            IF id = compData.bookA THEN [booksMap[id] EXCEPT !.rating = <<result.ratingA>>]
            ELSE IF id = compData.bookB THEN [booksMap[id] EXCEPT !.rating = <<result.ratingB>>]
            ELSE booksMap[id]]

\* The loop body reading the ratings an earlier replay ended with, when there was
\* one, in the place of those of booksMap.
ApplyComparisonCached(booksMap, compData) ==
    IF compData.bookA \notin DOMAIN booksMap \/ compData.bookB \notin DOMAIN booksMap
    THEN booksMap
    ELSE LET cache == IF lookup.kind = "processAllComparisons" THEN lookup.result
                      ELSE booksMap
             ra == IF IsNumber(cache[compData.bookA].rating)
                   THEN cache[compData.bookA].rating[1] ELSE INITIAL_RATING
             rb == IF IsNumber(cache[compData.bookB].rating)
                   THEN cache[compData.bookB].rating[1] ELSE INITIAL_RATING
             outcome2 == IF compData.winner = compData.bookA THEN 2 ELSE 0
             result == updateRatings(ra, rb, outcome2)
         IN  [booksMap EXCEPT ![compData.bookA].rating = <<result.ratingA>>,
                              ![compData.bookB].rating = <<result.ratingB>>]

\* One iteration of the loop over allComparisons, on the lookup map booksMap.
ApplyComparison(booksMap, compData) ==
    IF compData.bookA \notin DOMAIN booksMap \/ compData.bookB \notin DOMAIN booksMap
    THEN booksMap
    ELSE LET ra == IF IsNumber(booksMap[compData.bookA].rating)
                   THEN booksMap[compData.bookA].rating[1] ELSE INITIAL_RATING
             rb == IF IsNumber(booksMap[compData.bookB].rating)
                   THEN booksMap[compData.bookB].rating[1] ELSE INITIAL_RATING
             outcome2 == IF compData.winner = compData.bookA THEN 2 ELSE 0
             result == updateRatings(ra, rb, outcome2)
         IN  [booksMap EXCEPT ![compData.bookA].rating = <<result.ratingA>>,
                              ![compData.bookB].rating = <<result.ratingB>>]

RECURSIVE ProcessLoop(_, _, _)
ProcessLoop(booksMap, allComparisons, i) ==
    IF i > Len(allComparisons) THEN booksMap
    ELSE ProcessLoop(ApplyComparison(booksMap, allComparisons[i]), allComparisons, i + 1)

\* The ids the final loop saves, in Map (key) order: those with rating !== undefined.
RECURSIVE ToSave(_, _)
ToSave(booksMap, id) ==
    IF id > NumBooks THEN <<>>
    ELSE (IF id \in DOMAIN booksMap /\ booksMap[id].rating # NoRating THEN <<id>> ELSE <<>>)
         \o ToSave(booksMap, id + 1)

(***************************************************************************)
(* The asynchronous ledger tasks.  kind "record" is storeComparison called *)
(* on its own, "replay" is processAllComparisons called on its own and     *)
(* "choice" is app.handleComparisonChoice (store, then replay).            *)
(***************************************************************************)
NoComparison == [bookA |-> 0, bookB |-> 0, winner |-> 0]

IdleCall ==
    [pc |-> "idle", kind |-> "none", args |-> <<>>,
     comparison |-> NoComparison, isDuplicate |-> FALSE,
     result |-> "none", booksMap |-> <<>>, allComparisons |-> <<>>, toSave |-> <<>>,
     booksBefore |-> <<>>]

\* Whether the ledger holds a record of the unordered pair {a, b}.
HasPair(ledger, a, b) ==
    \E i \in 1..Len(ledger) : {ledger[i].bookA, ledger[i].bookB} = {a, b}

\* The call without the constructor's checks and without validateComparison.
StoreCallUnvalidated(c, kind, a, b, w) ==
    /\ calls[c].pc = "idle"
    /\ (Len(comparisons) < MaxLedger \/ HasPair(comparisons, a, b))
    /\ kind = "choice" => replays < MaxReplays
    /\ replays' = IF kind = "choice" THEN replays + 1 ELSE replays
    /\ ledgerAtCall' = [ledgerAtCall EXCEPT ![c] = comparisons]
    /\ calls' = [calls EXCEPT ![c] = [IdleCall EXCEPT !.pc = "checked", !.kind = kind,
                      !.args = <<a, b, w>>,
                      !.comparison = Comparison(a, b, w),
                      !.isDuplicate = checkDuplicateComparison(comparisons,
                                          Comparison(a, b, w).bookA,
                                          Comparison(a, b, w).bookB)]]
    /\ UNCHANGED <<books, comparisons>>

\* new Comparison(a, b, w) followed by storeComparison up to its first suspension,
\* the ledger read of checkDuplicateComparison.
StoreCall(c, kind, a, b, w) ==
    /\ calls[c].pc = "idle"
    /\ (Len(comparisons) < MaxLedger \/ a = b \/ HasPair(comparisons, a, b))
    /\ kind = "choice" => replays < MaxReplays
    /\ replays' = IF kind = "choice" THEN replays + 1 ELSE replays
    /\ ledgerAtCall' = [ledgerAtCall EXCEPT ![c] = comparisons]
    /\ IF ComparisonThrows(a, b, w) \/ ~validateComparison(Comparison(a, b, w))
       THEN calls' = [calls EXCEPT ![c] = [IdleCall EXCEPT !.pc = "done", !.kind = kind,
                          !.args = <<a, b, w>>, !.result = "invalid"]]
       ELSE calls' = [calls EXCEPT ![c] = [IdleCall EXCEPT !.pc = "checked", !.kind = kind,
                          !.args = <<a, b, w>>,
                          !.comparison = Comparison(a, b, w),
                          !.isDuplicate = checkDuplicateComparison(comparisons,
                                              Comparison(a, b, w).bookA,
                                              Comparison(a, b, w).bookB)]]
    /\ UNCHANGED <<books, comparisons>>

\* storeComparison resumes with the result of the duplicate check.
StoreResume(c) ==
    /\ calls[c].pc = "checked"
    /\ IF calls[c].isDuplicate
       THEN /\ calls' = [calls EXCEPT ![c].pc = "done", ![c].result = "duplicate"]
            /\ UNCHANGED comparisons
       ELSE /\ comparisons' = Append(comparisons, calls[c].comparison)
            /\ calls' = [calls EXCEPT
                   ![c].pc = IF calls[c].kind = "choice" THEN "replay" ELSE "done",
                   ![c].result = "stored"]
    /\ UNCHANGED <<books, replays, ledgerAtCall>>

\* processAllComparisons called on its own.
ReplayCall(c) ==
    /\ calls[c].pc = "idle"
    /\ replays < MaxReplays
    /\ replays' = replays + 1
    /\ calls' = [calls EXCEPT ![c] = [IdleCall EXCEPT !.pc = "replay", !.kind = "replay"]]
    /\ ledgerAtCall' = [ledgerAtCall EXCEPT ![c] = comparisons]
    /\ UNCHANGED <<books, comparisons>>

\* getAllBooks, getAllComparisons and the loop over the comparisons.
ReplayRead(c) ==
    /\ calls[c].pc = "replay"
    /\ IF Len(comparisons) = 0
       THEN calls' = [calls EXCEPT ![c].pc = "done", ![c].result = "nothing"]
       ELSE LET m == ProcessLoop(books, comparisons, 1)
            IN  calls' = [calls EXCEPT ![c].pc = "persist", ![c].booksMap = m,
                              ![c].booksBefore = books,
                              ![c].allComparisons = comparisons,
                              ![c].toSave = ToSave(m, 1)]
    /\ UNCHANGED <<books, comparisons, replays, ledgerAtCall>>

\* db.updateBook: store.put(book) inserts the record or replaces the one with its key.
put(store, id, record) ==
    [x \in DOMAIN store \cup {id} |-> IF x = id THEN record ELSE store[x]]

\* One iteration of the final loop: await updateBook(book).
ReplayPersist(c) ==
    /\ calls[c].pc = "persist"
    /\ IF calls[c].toSave = <<>>
       THEN /\ calls' = [calls EXCEPT ![c].pc = "done", ![c].result = "replayed"]
            /\ UNCHANGED books
       ELSE /\ books' = put(books, Head(calls[c].toSave),
                              calls[c].booksMap[Head(calls[c].toSave)])
            /\ calls' = [calls EXCEPT ![c].toSave = Tail(@)]
    /\ UNCHANGED <<comparisons, replays, ledgerAtCall>>

\* updateBook rejects (request.onerror): the await in the final loop throws and
\* processAllComparisons rejects; the books saved so far stay saved.
ReplayPersistFail(c) ==
    /\ calls[c].pc = "persist"
    /\ calls[c].toSave # <<>>
    /\ calls' = [calls EXCEPT ![c].pc = "done", ![c].result = "failed"]
    /\ UNCHANGED <<books, comparisons, replays, ledgerAtCall>>

\* The task's promise has settled; the slot is free for the next call.
Return(c) ==
    /\ calls[c].pc = "done"
    /\ calls' = [calls EXCEPT ![c] = IdleCall]
    /\ ledgerAtCall' = [ledgerAtCall EXCEPT ![c] = <<>>]
    /\ UNCHANGED <<books, comparisons, replays>>

NoTaskInFlight == \A c \in Callers : calls[c].pc = "idle"

\* db.deleteBook(id), from the library view.
MaxDeletes == 1

deleteBook(id) ==
    /\ id \in DOMAIN books
    /\ Cardinality(DOMAIN books) > NumBooks - MaxDeletes
    /\ books' = [x \in DOMAIN books \ {id} |-> books[x]]
    /\ UNCHANGED <<comparisons, calls, replays, ledgerAtCall>>

\* ranking.initializeBookRatings(books), on the array read by getAllBooks.
initializeBookRatings(bookList) ==
    [id \in DOMAIN bookList |->
        IF bookList[id].rating = NoRating
        THEN [bookList[id] EXCEPT !.rating = <<INITIAL_RATING>>]
        ELSE bookList[id]]

\* The 'Initialize Ratings' handler: the books that needed a rating are saved with
\* the value initializeBookRatings gave them.
InitializeRatings ==
    /\ \E id \in DOMAIN books : books[id].rating = NoRating
    /\ books' = [id \in DOMAIN books |->
                    IF books[id].rating = NoRating
                    THEN initializeBookRatings(books)[id] ELSE books[id]]
    /\ UNCHANGED <<comparisons, calls, replays, ledgerAtCall>>

LedgerInit ==
    /\ books = [id \in BookIds |-> [rating |-> NoRating]]
    /\ comparisons = <<>>
    /\ calls = [c \in Callers |-> IdleCall]
    /\ replays = 0
    /\ ledgerAtCall = [c \in Callers |-> <<>>]

(***************************************************************************)
(* modules/sheets.js: error values.  A message is the tuple of its         *)
(* characters, so that String.prototype.includes is computed (it is        *)
(* case-sensitive).  A status that is undefined is 0.                      *)
(***************************************************************************)
\* "network"
StrNetwork ==
    << "n", "e", "t", "w", "o", "r", "k" >>

\* "fetch"
StrFetch ==
    << "f", "e", "t", "c", "h" >>

\* "Failed to fetch"
MsgFailedToFetch ==
    << "F", "a", "i", "l", "e", "d", " ", "t", "o", " ", "f", "e", "t", "c", "h" >>

\* "A network error occurred"
MsgNetworkOccurred ==
    << "A", " ", "n", "e", "t", "w", "o", "r", "k", " ", "e", "r", "r", "o", "r", " ", "o",
       "c", "c", "u", "r", "r", "e", "d" >>

\* "Internal error encountered"
MsgInternalError ==
    << "I", "n", "t", "e", "r", "n", "a", "l", " ", "e", "r", "r", "o", "r", " ", "e", "n",
       "c", "o", "u", "n", "t", "e", "r", "e", "d" >>

\* "Invalid Credentials"
MsgInvalidCredentials ==
    << "I", "n", "v", "a", "l", "i", "d", " ", "C", "r", "e", "d", "e", "n", "t", "i", "a",
       "l", "s" >>

\* "The caller does not have permission"
MsgPermissionDenied ==
    << "T", "h", "e", " ", "c", "a", "l", "l", "e", "r", " ", "d", "o", "e", "s", " ", "n",
       "o", "t", " ", "h", "a", "v", "e", " ", "p", "e", "r", "m", "i", "s", "s", "i", "o",
       "n" >>

\* "Network is offline. Please check your internet connection."
MsgOffline ==
    << "N", "e", "t", "w", "o", "r", "k", " ", "i", "s", " ", "o", "f", "f", "l", "i", "n",
       "e", ".", " ", "P", "l", "e", "a", "s", "e", " ", "c", "h", "e", "c", "k", " ", "y",
       "o", "u", "r", " ", "i", "n", "t", "e", "r", "n", "e", "t", " ", "c", "o", "n", "n",
       "e", "c", "t", "i", "o", "n", "." >>

\* "Access denied to modify spreadsheet. Please check write permissions."
MsgAccessDenied ==
    << "A", "c", "c", "e", "s", "s", " ", "d", "e", "n", "i", "e", "d", " ", "t", "o", " ",
       "m", "o", "d", "i", "f", "y", " ", "s", "p", "r", "e", "a", "d", "s", "h", "e", "e",
       "t", ".", " ", "P", "l", "e", "a", "s", "e", " ", "c", "h", "e", "c", "k", " ", "w",
       "r", "i", "t", "e", " ", "p", "e", "r", "m", "i", "s", "s", "i", "o", "n", "s", "." >>

\* "Authentication expired. Please log out and log back in."
MsgAuthExpired ==
    << "A", "u", "t", "h", "e", "n", "t", "i", "c", "a", "t", "i", "o", "n", " ", "e", "x",
       "p", "i", "r", "e", "d", ".", " ", "P", "l", "e", "a", "s", "e", " ", "l", "o", "g",
       " ", "o", "u", "t", " ", "a", "n", "d", " ", "l", "o", "g", " ", "b", "a", "c", "k",
       " ", "i", "n", "." >>

\* "Network error appending data. Please check your internet connection."
MsgNetworkAppending ==
    << "N", "e", "t", "w", "o", "r", "k", " ", "e", "r", "r", "o", "r", " ", "a", "p", "p",
       "e", "n", "d", "i", "n", "g", " ", "d", "a", "t", "a", ".", " ", "P", "l", "e", "a",
       "s", "e", " ", "c", "h", "e", "c", "k", " ", "y", "o", "u", "r", " ", "i", "n", "t",
       "e", "r", "n", "e", "t", " ", "c", "o", "n", "n", "e", "c", "t", "i", "o", "n", "." >>

\* "Failed to append data: "
MsgFailedToAppend ==
    << "F", "a", "i", "l", "e", "d", " ", "t", "o", " ", "a", "p", "p", "e", "n", "d", " ",
       "d", "a", "t", "a", ":", " " >>

\* "Cannot read properties of undefined (reading 'includes')"
MsgTypeError ==
    << "C", "a", "n", "n", "o", "t", " ", "r", "e", "a", "d", " ", "p", "r", "o", "p", "e",
       "r", "t", "i", "e", "s", " ", "o", "f", " ", "u", "n", "d", "e", "f", "i", "n", "e",
       "d", " ", "(", "r", "e", "a", "d", "i", "n", "g", " ", "'", "i", "n", "c", "l", "u",
       "d", "e", "s", "'", ")" >>

\* 'Requested entity was not found.'
MsgNotFound ==
    << "R", "e", "q", "u", "e", "s", "t", "e", "d", " ", "e", "n", "t", "i", "t", "y", " ",
       "w", "a", "s", " ", "n", "o", "t", " ", "f", "o", "u", "n", "d", "." >>

\* 'Sheet [Sheet1 in double quotes] not found in spreadsheet. Please check the sheet name.'
MsgSheetNotFound ==
    << "S", "h", "e", "e", "t", " ", "\"", "S", "h", "e", "e", "t", "1", "\"", " ", "n",
       "o", "t", " ", "f", "o", "u", "n", "d", " ", "i", "n", " ", "s", "p", "r", "e", "a",
       "d", "s", "h", "e", "e", "t", ".", " ", "P", "l", "e", "a", "s", "e", " ", "c", "h",
       "e", "c", "k", " ", "t", "h", "e", " ", "s", "h", "e", "e", "t", " ", "n", "a", "m",
       "e", "." >>

\* String.prototype.includes
Includes(str, sub) ==
    \E k \in 0..(Len(str) - Len(sub)) : SubSeq(str, k + 1, k + Len(sub)) = sub

\* The rejections of a gapi request the model draws from: a fetch failure, a
\* network failure reported by the client library, a response object without a
\* message property (status 503), a 500 with a message, a 404, a 401 and a 403.
RemoteErrors ==
    { [kind |-> "network", status |-> 0, hasMessage |-> TRUE, message |-> MsgFailedToFetch],
      [kind |-> "network", status |-> 0, hasMessage |-> TRUE, message |-> MsgNetworkOccurred],
      [kind |-> "5xx", status |-> 503, hasMessage |-> FALSE, message |-> <<>>],
      [kind |-> "5xx", status |-> 500, hasMessage |-> TRUE, message |-> MsgInternalError],
      [kind |-> "notfound", status |-> 404, hasMessage |-> TRUE, message |-> MsgNotFound],
      [kind |-> "auth", status |-> 401, hasMessage |-> TRUE, message |-> MsgInvalidCredentials],
      [kind |-> "auth", status |-> 403, hasMessage |-> TRUE, message |-> MsgPermissionDenied] }

isOnline == online

\* The catch block of retryWithBackoff after attempt number `attempt` (from 0)
\* failed with `error`: rethrow, or wait and try again.
maxRetries == 3

retryWithBackoff(error, attempt) ==
    IF attempt = maxRetries THEN [next |-> "throw", error |-> error]
    ELSE IF error.status = 401 \/ error.status = 403 THEN [next |-> "throw", error |-> error]
    ELSE IF ~isOnline
         THEN [next |-> "throw",
               error |-> [kind |-> "offline", status |-> 0, hasMessage |-> TRUE,
                          message |-> MsgOffline]]
    ELSE [next |-> "backoff", error |-> error]

\* The catch block of appendSheetData: the error it throws for `error`.
appendSheetData(error) ==
    IF error.status = 404
    THEN [kind |-> error.kind, status |-> 0, hasMessage |-> TRUE, message |-> MsgSheetNotFound]
    ELSE IF error.status = 403
    THEN [kind |-> error.kind, status |-> 0, hasMessage |-> TRUE, message |-> MsgAccessDenied]
    ELSE IF error.status = 401
    THEN [kind |-> error.kind, status |-> 0, hasMessage |-> TRUE, message |-> MsgAuthExpired]
    ELSE IF ~error.hasMessage
    THEN [kind |-> error.kind, status |-> 0, hasMessage |-> TRUE, message |-> MsgTypeError]
    ELSE IF Includes(error.message, StrNetwork) \/ Includes(error.message, StrFetch)
    THEN [kind |-> error.kind, status |-> 0, hasMessage |-> TRUE,
          message |-> MsgNetworkAppending]
    ELSE [kind |-> error.kind, status |-> 0, hasMessage |-> TRUE,
          message |-> MsgFailedToAppend \o error.message]

\* The condition of the catch block of appendBooksToSheets under which the
\* operation is queued rather than rethrown.
appendBooksToSheetsQueues(error) ==
    Includes(error.message, StrNetwork) \/ error.status >= 500

\* What a failed attempt of the remote append leads to: "backoff", "queued" or "thrown".
AppendFailure(error, attempt) ==
    LET d == retryWithBackoff(error, attempt)
    IN  IF d.next = "backoff" THEN "backoff"
        ELSE IF appendBooksToSheetsQueues(appendSheetData(d.error)) THEN "queued"
        ELSE "thrown"

(***************************************************************************)
(* modules/sheets.js: class SyncQueue and its module-level instance.       *)
(***************************************************************************)
MaxQueue == 5
MaxCalls == 1
NumPasses == 2
RetryCeiling == 3

Passes == 1..NumPasses
Payloads == 1..MaxCalls
OpTypes == {"append_books", "update_book_row"}

\* SyncQueue.add: the queue after the push (the spreadsheet id is the same in
\* every call and is left out; id and timestamp are not read by the queue).
add(q, type, payload) ==
    Append(q, [type |-> type, payload |-> payload, retries |-> 0])

\* JSON.stringify and JSON.parse of an operation: the text is the tuple of the
\* values of its properties.
stringify(operation) == <<operation.type, operation.payload, operation.retries>>

\* A parse that starts every operation at retries 0.
parseResetRetries(text) == [type |-> text[1], payload |-> text[2], retries |-> 0]

parse(text) == [type |-> text[1], payload |-> text[2], retries |-> text[3]]

\* SyncQueue.saveToStorage: the blob written for queue q.
saveToStorage(q) == [k \in 1..Len(q) |-> stringify(q[k])]

\* SyncQueue.loadFromStorage: the queue read from the blob (an absent blob and
\* the blob of an empty queue both give the empty queue).
loadFromStorage(blob) == [k \in 1..Len(blob) |-> parse(blob[k])]

\* Array.prototype.unshift in the place of push.
unshift(array, operation) == <<operation>> \o array

\* remainingOps.push(operation)
push(array, operation) == Append(array, operation)

\* SyncQueue.getStatus
getStatus ==
    [queuedOperations |-> Len(queue),
     isProcessing |-> isProcessing,
     operations |-> [k \in 1..Len(queue) |->
                        [type |-> queue[k].type, retries |-> queue[k].retries]]]

\* The guard of process() without the re-entrancy flag.
ProcessSkipsNoFlag == Len(queue) = 0 \/ ~isOnline

\* The guard of process(): the call returns at once.
ProcessSkips == isProcessing \/ Len(queue) = 0 \/ ~isOnline

\* last = "busy": the latest process() call of this slot returned at the guard
\* because a pass was in progress.
IdlePass == [pc |-> "idle", i |-> 0, remainingOps |-> <<>>, attempt |-> 0, last |-> "none"]

IdleDirect ==
    [pc |-> "idle", type |-> "none", payload |-> 0, attempt |-> 0, result |-> "none",
     offlineAtCall |-> FALSE, failure |-> "none", onlineAtFailure |-> TRUE,
     inQueue |-> 0, inStorage |-> 0]

\* A continuation of a pass is runnable without returning to the event loop:
\* nothing else (events, timers, responses) runs before it.
NoMicrotaskPending == \A p \in Passes : pass[p].pc # "loop"

\* History: a failed attempt of the write with this payload (the count stops one
\* above the ceiling).
NoteFailure(h, payload, error, inPass) ==
    [h EXCEPT !.attempts[payload] = IF inPass /\ @ <= RetryCeiling THEN @ + 1 ELSE @,
              !.authFailed = IF error.kind = "auth" THEN @ \cup {payload} ELSE @,
              !.authHeld = IF error.kind = "auth" /\ inPass THEN @ \cup {payload} ELSE @]

\* History: the write with this payload has reached the remote store.
NoteSuccess(h, payload) ==
    [h EXCEPT !.authFailed = @ \ {payload}, !.authHeld = @ \ {payload}]

Count(q, type, payload) ==
    Cardinality({k \in 1..Len(q) : q[k].type = type /\ q[k].payload = payload})

\* The try statements of process() and saveToStorage(): the lines of their bodies.
TryBlocksSaveOnly == {[first |-> 1106, last |-> 1106]}

TryBlocks == {[first |-> 1063, last |-> 1064], [first |-> 1106, last |-> 1106]}

\* An exception raised at `line` while process() runs leaves process(): no try
\* body holds the line.
Propagates(line) == ~\E block \in TryBlocks : line \in block.first..block.last

\* process() is called (processSyncQueue, or the timer set by the 'online' event).
Process(p) ==
    /\ NoMicrotaskPending
    /\ pass[p].pc = "idle"
    /\ \A q \in Passes : q < p => pass[q].pc # "idle"    \* call slots are interchangeable
    /\ IF ProcessSkips
       THEN /\ pass' = [pass EXCEPT ![p].last = IF isProcessing THEN "busy" ELSE "none"]
            /\ UNCHANGED isProcessing
       ELSE /\ isProcessing' = TRUE
            /\ pass' = [pass EXCEPT ![p] = [IdlePass EXCEPT !.pc = "loop", !.i = 1]]
    /\ UNCHANGED <<queue, storage, online, direct, issued, hist>>

\* The next iteration of `for (const operation of this.queue)`: executeOperation up
\* to its first suspension, or the end of the pass.
PassLoop(p) ==
    /\ pass[p].pc = "loop"
    /\ IF pass[p].i > Len(queue)
       THEN /\ queue' = pass[p].remainingOps
            /\ storage' = saveToStorage(pass[p].remainingOps)
            /\ isProcessing' = FALSE
            /\ pass' = [pass EXCEPT ![p] = IdlePass]
       ELSE IF ~isOnline
       THEN \* appendBooksToSheets / updateBookInSheets queue the operation and return
            /\ queue[pass[p].i].type \in OpTypes
            /\ Len(queue) < MaxQueue
            /\ queue' = add(queue, queue[pass[p].i].type, queue[pass[p].i].payload)
            /\ storage' = saveToStorage(queue')
            /\ pass' = [pass EXCEPT ![p].i = @ + 1]
            /\ UNCHANGED isProcessing
       ELSE /\ queue[pass[p].i].type \in OpTypes
            /\ pass' = [pass EXCEPT ![p].pc = "write", ![p].attempt = 0]
            /\ UNCHANGED <<queue, storage, isProcessing>>
    /\ UNCHANGED <<online, direct, issued, hist>>

\* The remote write of the pass's current operation succeeds.
PassWriteOk(p) ==
    /\ NoMicrotaskPending
    /\ pass[p].pc = "write"
    /\ pass' = [pass EXCEPT ![p].pc = "loop", ![p].i = @ + 1]
    /\ hist' = NoteSuccess(hist, queue[pass[p].i].payload)
    /\ UNCHANGED <<queue, storage, isProcessing, online, direct, issued>>

\* The remote write of the pass's current operation fails with `error`.
PassWriteFail(p, error) ==
    /\ NoMicrotaskPending
    /\ pass[p].pc = "write"
    /\ LET i == pass[p].i
           op == queue[i]
           queued == \/ op.type = "update_book_row"
                     \/ AppendFailure(error, pass[p].attempt) = "queued"
       IN  IF op.type = "append_books" /\ AppendFailure(error, pass[p].attempt) = "backoff"
           THEN /\ pass' = [pass EXCEPT ![p].pc = "backoff"]
                /\ UNCHANGED <<queue, storage, hist>>
           ELSE IF queued
           THEN \* the callee has queued a new operation and returned normally
                /\ Len(queue) < MaxQueue
                /\ queue' = add(queue, op.type, op.payload)
                /\ storage' = saveToStorage(queue')
                /\ pass' = [pass EXCEPT ![p].pc = "loop", ![p].i = @ + 1]
                /\ hist' = NoteFailure(hist, op.payload, error, TRUE)
           ELSE IF Propagates(1063)
           THEN \* executeOperation has thrown and nothing catches it
                /\ pass' = [pass EXCEPT ![p] = [IdlePass EXCEPT !.last = "threw"]]
                /\ hist' = NoteFailure(hist, op.payload, error, TRUE)
                /\ UNCHANGED <<queue, storage>>
           ELSE \* executeOperation has thrown: the catch block of process()
                /\ queue' = [queue EXCEPT ![i].retries = @ + 1]
                /\ pass' = [pass EXCEPT ![p].pc = "loop", ![p].i = @ + 1,
                                ![p].remainingOps =
                                    IF op.retries + 1 < RetryCeiling
                                    THEN push(@, [op EXCEPT !.retries = @ + 1])
                                    ELSE @]
                /\ hist' = [NoteFailure(hist, op.payload, error, TRUE) EXCEPT
                               !.dropped = IF op.retries + 1 < RetryCeiling THEN @ ELSE @ + 1]
                /\ UNCHANGED storage
    /\ UNCHANGED <<isProcessing, online, direct, issued>>

\* executeOperation for an operation of a type it does not know: the default
\* branch of its switch throws, whatever the connectivity.
PassUnknown(p) ==
    /\ pass[p].pc = "loop"
    /\ pass[p].i <= Len(queue)
    /\ queue[pass[p].i].type \notin OpTypes
    /\ LET i == pass[p].i
           op == queue[i]
       IN  IF Propagates(1063)
           THEN /\ pass' = [pass EXCEPT ![p] = [IdlePass EXCEPT !.last = "threw"]]
                /\ UNCHANGED <<queue, hist>>
           ELSE /\ queue' = [queue EXCEPT ![i].retries = @ + 1]
                /\ pass' = [pass EXCEPT ![p].i = @ + 1,
                                ![p].remainingOps =
                                    IF op.retries + 1 < RetryCeiling
                                    THEN push(@, [op EXCEPT !.retries = @ + 1])
                                    ELSE @]
                /\ hist' = [hist EXCEPT
                               !.dropped = IF op.retries + 1 < RetryCeiling THEN @ ELSE @ + 1]
    /\ UNCHANGED <<storage, isProcessing, online, direct, issued>>

\* The end of the pass when localStorage.setItem throws (the quota is exceeded):
\* the blob stays as it was.
PassEndStorageError(p) ==
    /\ pass[p].pc = "loop"
    /\ pass[p].i > Len(queue)
    /\ queue' = pass[p].remainingOps
    /\ IF Propagates(1106)
       THEN /\ pass' = [pass EXCEPT ![p] = [IdlePass EXCEPT !.last = "threw"]]
            /\ UNCHANGED isProcessing
       ELSE /\ pass' = [pass EXCEPT ![p] = IdlePass]
            /\ isProcessing' = FALSE
    /\ UNCHANGED <<storage, online, direct, issued, hist>>

\* The delay of retryWithBackoff has elapsed: the next attempt is made.
PassBackoff(p) ==
    /\ NoMicrotaskPending
    /\ pass[p].pc = "backoff"
    /\ pass' = [pass EXCEPT ![p].pc = "write", ![p].attempt = @ + 1]
    /\ UNCHANGED <<queue, storage, isProcessing, online, direct, issued, hist>>

\* The application calls appendBooksToSheets or updateBookInSheets (syncToSheets,
\* resolveSyncConflicts) with a payload of its own.
DirectCall(type) ==
    /\ NoMicrotaskPending
    /\ direct.pc = "idle"
    /\ issued < MaxCalls
    /\ issued' = issued + 1
    /\ IF ~isOnline
       THEN /\ Len(queue) < MaxQueue
            /\ queue' = add(queue, type, issued + 1)
            /\ storage' = saveToStorage(queue')
            /\ direct' = [IdleDirect EXCEPT !.pc = "done", !.type = type,
                              !.payload = issued + 1, !.result = "queued",
                              !.offlineAtCall = TRUE,
                              !.inQueue = Count(queue', type, issued + 1),
                              !.inStorage = Count(loadFromStorage(storage'), type, issued + 1)]
       ELSE /\ direct' = [IdleDirect EXCEPT !.pc = "write", !.type = type,
                              !.payload = issued + 1]
            /\ UNCHANGED <<queue, storage>>
    /\ UNCHANGED <<isProcessing, online, pass, hist>>

DirectWriteOk ==
    /\ NoMicrotaskPending
    /\ direct.pc = "write"
    /\ direct' = [direct EXCEPT !.pc = "done", !.result = "success", !.failure = "none"]
    /\ hist' = NoteSuccess(hist, direct.payload)
    /\ UNCHANGED <<queue, storage, isProcessing, online, pass, issued>>

DirectWriteFail(error) ==
    /\ NoMicrotaskPending
    /\ direct.pc = "write"
    /\ LET queued == \/ direct.type = "update_book_row"
                     \/ AppendFailure(error, direct.attempt) = "queued"
           noted == [direct EXCEPT !.failure = error.kind,
                                   !.onlineAtFailure = @ /\ isOnline]
       IN  IF direct.type = "append_books" /\ AppendFailure(error, direct.attempt) = "backoff"
           THEN /\ direct' = [noted EXCEPT !.pc = "backoff"]
                /\ UNCHANGED <<queue, storage, hist>>
           ELSE IF queued
           THEN /\ Len(queue) < MaxQueue
                /\ queue' = add(queue, direct.type, direct.payload)
                /\ storage' = saveToStorage(queue')
                /\ direct' = [noted EXCEPT !.pc = "done", !.result = "queued",
                                  !.inQueue = Count(queue', direct.type, direct.payload),
                                  !.inStorage = Count(loadFromStorage(storage'), direct.type,
                                                     direct.payload)]
                /\ hist' = NoteFailure(hist, direct.payload, error, FALSE)
           ELSE /\ direct' = [noted EXCEPT !.pc = "done", !.result = "thrown"]
                /\ hist' = NoteFailure(hist, direct.payload, error, FALSE)
                /\ UNCHANGED <<queue, storage>>
    /\ UNCHANGED <<isProcessing, online, pass, issued>>

DirectBackoff ==
    /\ NoMicrotaskPending
    /\ direct.pc = "backoff"
    /\ direct' = [direct EXCEPT !.pc = "write", !.attempt = @ + 1]
    /\ UNCHANGED <<queue, storage, isProcessing, online, pass, issued, hist>>

\* The call's promise has settled.
DirectReturn ==
    /\ NoMicrotaskPending
    /\ direct.pc = "done"
    /\ direct' = IdleDirect
    /\ UNCHANGED <<queue, storage, isProcessing, online, pass, issued, hist>>

\* navigator.onLine changes.
SetOnline(b) ==
    /\ NoMicrotaskPending
    /\ online # b
    /\ online' = b
    /\ UNCHANGED <<queue, storage, isProcessing, pass, direct, issued, hist>>

\* The user signs in again (modules/auth.js authenticate).
Reauthenticate ==
    /\ NoMicrotaskPending
    /\ hist.authFailed # {}
    /\ hist' = [hist EXCEPT !.authFailed = {}]
    /\ UNCHANGED <<queue, storage, isProcessing, online, pass, direct, issued>>

NoHistory ==
    [attempts |-> [n \in Payloads |-> 0], dropped |-> 0, authFailed |-> {}, authHeld |-> {}]

\* The page is loaded again: a new SyncQueue is constructed and loadFromStorage
\* runs; the calls of the old page are gone (the history is that of the page).
Restart ==
    /\ queue' = loadFromStorage(storage)
    /\ isProcessing' = FALSE
    /\ pass' = [p \in Passes |-> IdlePass]
    /\ direct' = IdleDirect
    /\ hist' = NoHistory
    /\ UNCHANGED <<storage, online, issued>>

QueueInit ==
    /\ queue = <<>>
    /\ storage = <<>>
    /\ isProcessing = FALSE
    /\ online \in BOOLEAN
    /\ pass = [p \in Passes |-> IdlePass]
    /\ direct = IdleDirect
    /\ issued = 0
    /\ hist = NoHistory

(***************************************************************************)
(* modules/sheets.js: resolveSyncConflicts.  A sheet row is the tuple of   *)
(* its five cells (title, author, date read, genre, rating), all strings.  *)
(***************************************************************************)
NumLocal == 2
NumRows == 1

\* String.prototype.trim, toLowerCase, parseFloat and Number.prototype.toString on
\* the strings and numbers that occur.
trim(str) == IF str = " dune" THEN "dune" ELSE str

toLowerCase(str) ==
    CASE str = "Dune" -> "dune"
      [] str = "Emma" -> "emma"
      [] str = "Herbert" -> "herbert"
      [] OTHER -> str

parseFloat(str) ==
    CASE str = "7" -> 7
      [] str = "7.0" -> 7
      [] str = "8" -> 8

toString(number) ==
    CASE number = 7 -> "7"
      [] number = 8 -> "8"

\* isNaN(rating) for a rating that is undefined or a number.
isNaN(rating) == rating = NoRating

HeaderRow == <<"Title", "Author", "Date Read", "Genre", "Rating">>

\* The arguments the model draws from.
LocalBookInputs ==
    [title : {"Dune", "Emma"}, author : {"Herbert"}, datesRead : {<<"2020">>},
     genre : {"SciFi", "Novel"}, rating : {NoRating, <<7>>, <<8>>}]

RemoteRowInputs ==
    {<<title, "Herbert", "2020", "SciFi", rating>> :
        title \in {" dune", "Emma"}, rating \in {"", "7.0", "8"}}

\* The key of a local book and of a remote record.
BookKey(title, author) == <<toLowerCase(title), toLowerCase(author)>>

\* The record built from row i (0-based index into remoteData) with rowIndex i.
RemoteRecordOffByOne(i, row) ==
    [rowIndex |-> i, title |-> trim(row[1]), author |-> trim(row[2]),
     dateRead |-> trim(row[3]), genre |-> trim(row[4]),
     rating |-> IF row[5] # "" THEN <<parseFloat(row[5])>> ELSE NoRating]

\* The record remoteMap holds for row i (0-based index into remoteData).
RemoteRecord(i, row) ==
    [rowIndex |-> i + 1, title |-> trim(row[1]), author |-> trim(row[2]),
     dateRead |-> trim(row[3]), genre |-> trim(row[4]),
     rating |-> IF row[5] # "" THEN <<parseFloat(row[5])>> ELSE NoRating]

\* remoteMap after the rows with 0-based index 1..i have been parsed: a later row
\* replaces an earlier one with the same key.
RECURSIVE RemoteMap(_, _)
RemoteMap(remoteData, i) ==
    IF i < 1 THEN <<>>
    ELSE LET rec == RemoteRecord(i, remoteData[i + 1])
             key == BookKey(rec.title, rec.author)
             before == RemoteMap(remoteData, i - 1)
         IN  [k \in DOMAIN before \cup {key} |-> IF k = key THEN rec ELSE before[k]]

\* The condition under which a conflict is pushed.
RatingsConflict(localRating, remoteRating) ==
    localRating # remoteRating /\ ~(isNaN(localRating) /\ isNaN(remoteRating))

\* The conflicts found for the local books with ids id..NumLocal, in Map order.
RECURSIVE FindConflicts(_, _, _)
FindConflicts(localBooks, remoteMap, id) ==
    IF id > Len(localBooks) THEN <<>>
    ELSE LET key == BookKey(localBooks[id].title, localBooks[id].author)
         IN  (IF key \in DOMAIN remoteMap
                 /\ RatingsConflict(localBooks[id].rating, remoteMap[key].rating)
              THEN << [bookId |-> id,
                       local |-> [rating |-> localBooks[id].rating],
                       remote |-> [rating |-> remoteMap[key].rating],
                       rowIndex |-> remoteMap[key].rowIndex] >>
              ELSE <<>>)
             \o FindConflicts(localBooks, remoteMap, id + 1)

\* The row updateBookInSheets writes for a book.
BookRow(book) ==
    << book.title, book.author,
       IF Len(book.datesRead) > 0 THEN book.datesRead[1] ELSE "",
       book.genre,
       IF IsNumber(book.rating) THEN toString(book.rating[1]) ELSE "" >>

\* The resolution entry pushed after updateBookInSheets has settled.
Resolution(conflict, threw) ==
    [bookId |-> conflict.bookId,
     resolution |-> IF threw THEN "failed" ELSE "local_preferred"]

IdleResolve ==
    [pc |-> "idle", localBooks |-> <<>>, remoteData |-> <<>>, conflicts |-> <<>>,
     resolutions |-> <<>>, i |-> 0, requests |-> <<>>, outcomes |-> <<>>,
     result |-> [totalConflicts |-> 0, resolutions |-> <<>>]]

\* resolveSyncConflicts is called with the local books and the sheet as read: the
\* parse and the conflict search, up to the first updateBookInSheets.
ResolveCall(localBooks) ==
    /\ resolve.pc = "idle"
    /\ resolve' = [IdleResolve EXCEPT
                      !.pc = "loop", !.localBooks = localBooks, !.remoteData = sheet,
                      !.conflicts = FindConflicts(localBooks,
                                                  RemoteMap(sheet, Len(sheet) - 1), 1),
                      !.i = 1]
    /\ UNCHANGED <<sheet, queue, storage, online>>

\* The next conflict: updateBookInSheets up to its remote write, or the return.
\* requests logs each updateBookInSheets call, outcomes how each one ended.
ResolveLoop ==
    /\ resolve.pc = "loop"
    /\ IF resolve.i > Len(resolve.conflicts)
       THEN /\ resolve' = [resolve EXCEPT !.pc = "done",
                              !.result = [totalConflicts |-> Len(resolve.conflicts),
                                          resolutions |-> resolve.resolutions]]
            /\ UNCHANGED <<queue, storage>>
       ELSE LET conflict == resolve.conflicts[resolve.i]
                request == [rowIndex |-> conflict.rowIndex, bookId |-> conflict.bookId,
                            row |-> BookRow(resolve.localBooks[conflict.bookId])]
            IN  IF ~isOnline
                THEN /\ queue' = add(queue, "update_book_row", conflict.bookId)
                     /\ storage' = saveToStorage(queue')
                     /\ resolve' = [resolve EXCEPT
                            !.requests = Append(@, request),
                            !.outcomes = Append(@, "queued"),
                            !.resolutions = Append(@, Resolution(conflict, FALSE)),
                            !.i = @ + 1]
                ELSE /\ resolve' = [resolve EXCEPT !.pc = "write",
                                       !.requests = Append(@, request)]
                     /\ UNCHANGED <<queue, storage>>
    /\ UNCHANGED <<sheet, online>>

\* values.update resolves: the range A{rowIndex}:E{rowIndex} holds the row.
ResolveWriteOk ==
    /\ resolve.pc = "write"
    /\ LET conflict == resolve.conflicts[resolve.i]
       IN  /\ sheet' = [sheet EXCEPT ![conflict.rowIndex] =
                                         resolve.requests[Len(resolve.requests)].row]
           /\ resolve' = [resolve EXCEPT !.pc = "loop",
                             !.outcomes = Append(@, "written"),
                             !.resolutions = Append(@, Resolution(conflict, FALSE)),
                             !.i = @ + 1]
    /\ UNCHANGED <<queue, storage, online>>

\* values.update rejects: updateBookInSheets queues the operation and returns.
ResolveWriteFail ==
    /\ resolve.pc = "write"
    /\ LET conflict == resolve.conflicts[resolve.i]
       IN  /\ queue' = add(queue, "update_book_row", conflict.bookId)
           /\ storage' = saveToStorage(queue')
           /\ resolve' = [resolve EXCEPT !.pc = "loop",
                             !.outcomes = Append(@, "rejected"),
                             !.resolutions = Append(@, Resolution(conflict, FALSE)),
                             !.i = @ + 1]
    /\ UNCHANGED <<sheet, online>>

\* navigator.onLine changes while the call is suspended at a remote write.
ResolveConnectivity ==
    /\ resolve.pc \in {"idle", "write"}
    /\ online' = ~online
    /\ UNCHANGED <<sheet, resolve, queue, storage>>

SheetIdle == sheet = <<HeaderRow>> /\ resolve = IdleResolve

(***************************************************************************)
(* modules/rankings.js and modules/ranking.js: the ranking snapshot.  A    *)
(* value that may be null is <<>> for null and <<v>> for the value v.      *)
(***************************************************************************)
MaxRankings == 2

Null == <<>>

\* db.getAllBooks(): the stored books as an array, in key order.
RECURSIVE getAllBooks(_)
getAllBooks(store) ==
    IF DOMAIN store = {} THEN <<>>
    ELSE LET id == CHOOSE x \in DOMAIN store : \A y \in DOMAIN store : x >= y
         IN  Append(getAllBooks([x \in DOMAIN store \ {id} |-> store[x]]),
                    [id |-> id, rating |-> store[id].rating])

\* books.filter(book => typeof book.rating === 'number' && !isNaN(book.rating))
RECURSIVE FilterRated(_)
FilterRated(bookList) ==
    IF bookList = <<>> THEN <<>>
    ELSE (IF IsNumber(Head(bookList).rating) THEN <<Head(bookList)>> ELSE <<>>)
         \o FilterRated(Tail(bookList))

\* The comparators (a, b) => b.rating - a.rating, (a, b) => b.timestamp - a.timestamp
\* and (a, b) => a.rating - b.rating.
compare(a, b, order) ==
    IF order = "descending" THEN b.rating[1] - a.rating[1]
    ELSE IF order = "newest" THEN b.timestamp - a.timestamp
    ELSE a.rating[1] - b.rating[1]

\* Array.prototype.sort is stable: a book is placed in front of the first book the
\* comparator puts after it, behind every other.
RECURSIVE InsertBy(_, _, _)
InsertBy(sorted, book, order) ==
    IF sorted = <<>> THEN <<book>>
    ELSE IF compare(book, Head(sorted), order) < 0 THEN <<book>> \o sorted
         ELSE <<Head(sorted)>> \o InsertBy(Tail(sorted), book, order)

RECURSIVE SortBy(_, _)
SortBy(bookList, order) ==
    IF bookList = <<>> THEN <<>>
    ELSE InsertBy(SortBy(SubSeq(bookList, 1, Len(bookList) - 1), order),
                  bookList[Len(bookList)], order)

\* books.slice().sort((a, b) => a.rating - b.rating)
calculateRankingAscending(bookList) == SortBy(bookList, "ascending")

\* ranking.calculateRanking: books.slice().sort((a, b) => b.rating - a.rating)
calculateRanking(bookList) == SortBy(bookList, "descending")

\* calculateCurrentRanking on the books read; booksRead keeps what was read.
calculateCurrentRanking(store) ==
    LET bookList == getAllBooks(store)
        ratedBooks == FilterRated(bookList)
    IN  [rankedBooks |-> calculateRanking(ratedBooks),
         metadata |-> [totalBooks |-> Len(bookList),
                       ratedBooks |-> Len(ratedBooks),
                       unratedBooks |-> Len(bookList) - Len(ratedBooks)],
         booksRead |-> store]

\* updateCurrentRanking: calculateCurrentRanking throws when no book is rated,
\* and then nothing is stored; else the snapshot is added to the store.
updateCurrentRanking ==
    /\ Len(rankings) < MaxRankings
    /\ rankings' = IF FilterRated(getAllBooks(books)) = <<>>
                   THEN rankings
                   ELSE Append(rankings, calculateCurrentRanking(books))
    /\ UNCHANGED <<books, lookup>>

\* rankedBooks.findIndex(book => book.id === bookId), a 0-based index or -1.
RECURSIVE findIndex(_, _, _)
findIndex(rankedBooks, bookId, from) ==
    IF from >= Len(rankedBooks) THEN -1
    ELSE IF rankedBooks[from + 1].id = bookId THEN from
         ELSE findIndex(rankedBooks, bookId, from + 1)

\* getBookRank returning the 0-based index.
getBookRankZeroBased(rankedBooks, bookId) ==
    LET index == findIndex(rankedBooks, bookId, 0)
    IN  IF index >= 0 THEN <<index>> ELSE Null

\* Ranking.getBookRank
getBookRank(rankedBooks, bookId) ==
    LET index == findIndex(rankedBooks, bookId, 0)
    IN  IF index >= 0 THEN <<index + 1>> ELSE Null

\* Ranking.getBookByRank: rankedBooks[position - 1] || null
getBookByRank(rankedBooks, position) ==
    LET index == position - 1
    IN  IF index >= 0 /\ index < Len(rankedBooks) THEN <<rankedBooks[index + 1]>> ELSE Null

NoLookup == [kind |-> "none", ranking |-> 0, arg |-> 0, result |-> Null]

\* getBookRank(bookId) is called on the latest snapshot.
GetBookRank(r, bookId) ==
    /\ rankings # <<>>
    /\ r = Len(rankings)
    /\ lookup' = [kind |-> "getBookRank", ranking |-> r, arg |-> bookId,
                  result |-> getBookRank(rankings[r].rankedBooks, bookId)]
    /\ UNCHANGED <<books, rankings>>

\* getBookByRank(position) is called on the latest snapshot.
GetBookByRank(r, position) ==
    /\ rankings # <<>>
    /\ r = Len(rankings)
    /\ lookup' = [kind |-> "getBookByRank", ranking |-> r, arg |-> position,
                  result |-> getBookByRank(rankings[r].rankedBooks, position)]
    /\ UNCHANGED <<books, rankings>>

RankingIdle == rankings = <<>> /\ lookup = NoLookup

\* updateRatings is called with the ratings of two rated books and an outcome
\* (doubled: 2, 1 or 0).
UpdateRatings(bookA, bookB, outcome2) ==
    /\ bookA # bookB
    /\ IsNumber(books[bookA].rating) /\ IsNumber(books[bookB].rating)
    /\ lookup' = [kind |-> "updateRatings", ranking |-> 0,
                  arg |-> <<books[bookA].rating[1], books[bookB].rating[1], outcome2>>,
                  result |-> updateRatings(books[bookA].rating[1], books[bookB].rating[1],
                                           outcome2)]
    /\ UNCHANGED <<books, rankings>>

\* ranking.testEloCalculations: the four results it logs.
testEloCalculations ==
    /\ lookup' = [kind |-> "testEloCalculations", ranking |-> 0, arg |-> Null,
                  result |-> << updateRatings(1500, 1500, 2), updateRatings(1600, 1400, 2),
                                updateRatings(1400, 1600, 2), updateRatings(1500, 1500, 1) >>]
    /\ UNCHANGED <<books, rankings>>

(***************************************************************************)
(* modules/rankings.js and modules/comparisons.js: the histories.  A limit *)
(* is Null when the argument is left out, else <<n>>.                      *)
(***************************************************************************)
MaxTime == 2
MaxLimit == 3

\* The values Date.now() gives (the clock may stand still or be set back).
Timestamps == 1..MaxTime

Limits == {Null} \cup {<<n>> : n \in 0..MaxLimit}

\* The condition `limit ?`: null and 0 are falsy.
Truthy(limit) == limit # Null /\ limit[1] # 0

\* array.slice(0, end) for end >= 0
slice(array, end) == SubSeq(array, 1, IF end < Len(array) THEN end ELSE Len(array))

\* getLatestRanking over the snapshots read by getAllRankings
getLatestRanking(allRankings) ==
    IF Len(allRankings) = 0 THEN Null
    ELSE <<SortBy(allRankings, "newest")[1]>>

\* getAllRankingsHistory(limit) over the snapshots read by getAllRankings
getAllRankingsHistory(allRankings, limit) ==
    LET sortedRankings == SortBy(allRankings, "newest")
    IN  IF Truthy(limit) THEN slice(sortedRankings, limit[1]) ELSE sortedRankings

\* getComparisonHistory(bookId, limit) over the ledger read by getAllComparisons
getComparisonHistory(allComparisons, bookId, limit) ==
    LET sortedComparisons == SortBy(getComparisonsByBookId(allComparisons, bookId), "newest")
    IN  IF Truthy(limit) THEN slice(sortedComparisons, limit[1]) ELSE sortedComparisons

\* updateCurrentRanking when Date.now() gives `now`: the snapshot is stored with
\* that timestamp (nothing is stored when no book is rated).
UpdateCurrentRankingAt(now) ==
    /\ Len(rankings) < MaxRankings
    /\ FilterRated(getAllBooks(books)) # <<>>
    /\ rankings' = Append(rankings,
                          [rankedBooks |-> calculateCurrentRanking(books).rankedBooks,
                           timestamp |-> now,
                           metadata |-> calculateCurrentRanking(books).metadata])
    /\ UNCHANGED <<books, lookup>>

GetLatestRanking ==
    /\ lookup' = [kind |-> "getLatestRanking", ranking |-> Len(rankings), arg |-> Null,
                  result |-> getLatestRanking(rankings)]
    /\ UNCHANGED <<books, rankings>>

GetAllRankingsHistory(limit) ==
    /\ lookup' = [kind |-> "getAllRankingsHistory", ranking |-> Len(rankings),
                  arg |-> limit, result |-> getAllRankingsHistory(rankings, limit)]
    /\ UNCHANGED <<books, rankings>>

GetComparisonHistory(bookId, limit) ==
    /\ lookup' = [kind |-> "getComparisonHistory", ranking |-> Len(rankings),
                  arg |-> <<bookId, limit>>,
                  result |-> getComparisonHistory(comparisons, bookId, limit)]
    /\ UNCHANGED <<books, rankings>>

(***************************************************************************)
(* modules/sheets.js: the import (parseSheetDataToBooks, importBooksToDB). *)
(* A sheet row is its title cell; the author is the same in every row.     *)
(***************************************************************************)
MaxSheetRows == 2

SheetTitles == {"Dune", " dune", "Emma"}

Max(S) == CHOOSE x \in S : \A y \in S : x >= y

\* The loop of parseSheetDataToBooks over the data rows from row i on: parsed is
\* booksMap.values() so far, nextId the counter.
RECURSIVE ParseRows(_, _, _, _)
ParseRows(rows, i, parsed, nextId) ==
    IF i > Len(rows) THEN parsed
    ELSE LET title == trim(rows[i])
             bookKey == BookKey(title, "Herbert")
         IN  IF \E k \in 1..Len(parsed) : parsed[k].bookKey = bookKey
             THEN ParseRows(rows, i + 1, parsed, nextId)
             ELSE ParseRows(rows, i + 1,
                            Append(parsed, [id |-> nextId, title |-> title,
                                            bookKey |-> bookKey]),
                            nextId + 1)

\* parseSheetDataToBooks: the ids start after the highest id of the stored books.
parseSheetDataToBooks(rows, store) ==
    LET maxId == IF DOMAIN store # {} THEN Max(DOMAIN store) ELSE 0
    IN  ParseRows(rows, 1, <<>>, maxId + 1)

\* importBooksToDB: a book whose id is stored is merged into the stored one (its
\* read dates), every other book is added.
RECURSIVE importBooksToDB(_, _, _)
importBooksToDB(parsed, i, store) ==
    IF i > Len(parsed) THEN store
    ELSE importBooksToDB(parsed, i + 1,
            IF parsed[i].id \in DOMAIN store THEN store
            ELSE put(store, parsed[i].id,
                     [rating |-> NoRating, title |-> parsed[i].title]))

\* The import handler: the sheet is parsed and the books are imported.
Import(rows) ==
    LET parsed == parseSheetDataToBooks(rows, books)
    IN  /\ \A k \in 1..Len(parsed) : parsed[k].id \in BookIds
        /\ books' = importBooksToDB(parsed, 1, books)
        /\ assigned' = [id \in DOMAIN assigned \cup {parsed[k].id : k \in 1..Len(parsed)} |->
                           IF \E k \in 1..Len(parsed) : parsed[k].id = id
                           THEN (CHOOSE b \in {parsed[k] : k \in 1..Len(parsed)} :
                                    b.id = id).bookKey
                           ELSE assigned[id]]
        /\ UNCHANGED <<comparisons, calls, replays, ledgerAtCall>>

ImportIdle == assigned = <<>>

(***************************************************************************)
(* modules/sheets.js: syncToSheets and the requests the remote sheet has   *)
(* carried out.                                                            *)
(***************************************************************************)
\* result: what appendBooksToSheets or updateBookInSheets returned to the call
\* ("success", "queued", "thrown"); marked: the call has set needsSync = false and
\* stored the item; newBooksAdded, booksUpdated, errors: the results it returns.
IdleSync ==
    [pc |-> "idle", book |-> 0, type |-> "none", attempt |-> 0, result |-> "none",
     marked |-> FALSE, newBooksAdded |-> 0, booksUpdated |-> 0, errors |-> 0]

\* modules/sheets.js: a retryWithBackoff call.  invocations: the times it has
\* called the operation; lastError: its local; outcome: "returned" or "thrown",
\* with the error it threw.
NoError == [kind |-> "none", status |-> 0, hasMessage |-> FALSE, message |-> <<>>]

IdleRetry ==
    [pc |-> "idle", attempt |-> 0, invocations |-> 0, lastError |-> NoError,
     outcome |-> "none", thrown |-> NoError]

\* app.js: the add-book form before a submit.
EmptyForm == [title |-> "", author |-> "", status |-> ""]

RemoteIdle == remote = <<>> /\ sync = IdleSync /\ retry = IdleRetry /\ form = EmptyForm

(***************************************************************************)
(* Spec: the ledger used sequentially (one task at a time, as when every   *)
(* handler is awaited before the next user action).                        *)
(***************************************************************************)
Init == LedgerInit /\ QueueInit /\ online = TRUE /\ SheetIdle /\ RankingIdle /\ ImportIdle /\ RemoteIdle

\* storeComparison called on its own (app.js test panel).
RecordStep ==
    /\ NoTaskInFlight
    /\ \E a \in BookIds, b \in BookIds, w \in BookIds : StoreCall(1, "record", a, b, w)
    /\ UNCHANGED <<queueVars, sheetVars, rankingVars, importVars, remoteVars>>

\* app.handleComparisonChoice, awaited before the next user action.
ChoiceStep ==
    /\ NoTaskInFlight
    /\ \E a \in BookIds, b \in BookIds, w \in BookIds : StoreCall(1, "choice", a, b, w)
    /\ UNCHANGED <<queueVars, sheetVars, rankingVars, importVars, remoteVars>>

ReplayStep == NoTaskInFlight /\ ReplayCall(1) /\ UNCHANGED <<queueVars, sheetVars, rankingVars, importVars, remoteVars>>
StoreResumeStep == (\E c \in Callers : StoreResume(c)) /\ UNCHANGED <<queueVars, sheetVars, rankingVars, importVars, remoteVars>>
ReplayReadStep == (\E c \in Callers : ReplayRead(c)) /\ UNCHANGED <<queueVars, sheetVars, rankingVars, importVars, remoteVars>>
ReplayPersistStep == (\E c \in Callers : ReplayPersist(c)) /\ UNCHANGED <<queueVars, sheetVars, rankingVars, importVars, remoteVars>>
ReturnStep == (\E c \in Callers : Return(c)) /\ UNCHANGED <<queueVars, sheetVars, rankingVars, importVars, remoteVars>>
ReplayPersistFailStep == (\E c \in Callers : ReplayPersistFail(c)) /\ UNCHANGED <<queueVars, sheetVars, rankingVars, importVars, remoteVars>>

Next ==
    \/ RecordStep
    \/ ChoiceStep
    \/ ReplayStep
    \/ StoreResumeStep
    \/ ReplayReadStep
    \/ ReplayPersistStep
    \/ ReturnStep

Spec == Init /\ [][Next]_vars

(***************************************************************************)
(* SpecFail: as Spec, with storage writes of the replay that can fail.     *)
(***************************************************************************)
NextFail ==
    \/ RecordStep
    \/ ChoiceStep
    \/ ReplayStep
    \/ StoreResumeStep
    \/ ReplayReadStep
    \/ ReplayPersistStep
    \/ ReturnStep
    \/ ReplayPersistFailStep

SpecFail == Init /\ [][NextFail]_vars

(***************************************************************************)
(* SpecLibrary: the ledger used sequentially while books are deleted from   *)
(* the library between records and replays.  SpecRatings: the same with    *)
(* the 'Initialize Ratings' handler run between records and replays.       *)
(***************************************************************************)
\* storeComparison for a pair picked in the comparison view (two different books,
\* one of them the winner).
PairRecordStep ==
    /\ NoTaskInFlight
    /\ \E a \in BookIds, b \in BookIds, w \in BookIds :
           a < b /\ w \in {a, b} /\ StoreCall(1, "record", a, b, w)
    /\ UNCHANGED <<queueVars, sheetVars, rankingVars, importVars, remoteVars>>

DeleteStep == NoTaskInFlight /\ (\E id \in BookIds : deleteBook(id)) /\ UNCHANGED <<queueVars, sheetVars, rankingVars, importVars, remoteVars>>
InitializeRatingsStep == NoTaskInFlight /\ InitializeRatings /\ UNCHANGED <<queueVars, sheetVars, rankingVars, importVars, remoteVars>>

NextLibrary ==
    \/ PairRecordStep
    \/ ReplayStep
    \/ StoreResumeStep
    \/ ReplayReadStep
    \/ ReplayPersistStep
    \/ ReturnStep
    \/ DeleteStep

SpecLibrary == Init /\ [][NextLibrary]_vars

NextRatings ==
    \/ PairRecordStep
    \/ ReplayStep
    \/ StoreResumeStep
    \/ ReplayReadStep
    \/ ReplayPersistStep
    \/ ReturnStep
    \/ InitializeRatingsStep

SpecRatings == Init /\ [][NextRatings]_vars

(***************************************************************************)
(* SpecRace: handleComparisonChoice under any interleaving at its          *)
(* suspension points (a second click handled before the first handler has  *)
(* finished; the handlers share this.currentComparison).                   *)
(***************************************************************************)
RaceChoiceStep ==
    /\ \E c \in Callers, a \in BookIds, b \in BookIds, w \in BookIds :
           StoreCall(c, "choice", a, b, w)
    /\ UNCHANGED <<queueVars, sheetVars, rankingVars, importVars, remoteVars>>

NextRace ==
    \/ RaceChoiceStep
    \/ StoreResumeStep
    \/ ReplayReadStep
    \/ ReplayPersistStep
    \/ ReturnStep

SpecRace == Init /\ [][NextRace]_vars

(***************************************************************************)
(* SpecQueue: the sync queue, the application's write calls, process()     *)
(* invocations and the environment (connectivity, remote outcomes).        *)
(***************************************************************************)
QInit == LedgerInit /\ QueueInit /\ SheetIdle /\ RankingIdle /\ ImportIdle /\ RemoteIdle

ProcessStep == (\E p \in Passes : Process(p)) /\ UNCHANGED <<ledgerVars, sheetVars, rankingVars, importVars, remoteVars>>
PassLoopStep == (\E p \in Passes : PassLoop(p)) /\ UNCHANGED <<ledgerVars, sheetVars, rankingVars, importVars, remoteVars>>
PassWriteOkStep == (\E p \in Passes : PassWriteOk(p)) /\ UNCHANGED <<ledgerVars, sheetVars, rankingVars, importVars, remoteVars>>
PassWriteFailStep ==
    (\E p \in Passes, error \in RemoteErrors : PassWriteFail(p, error)) /\ UNCHANGED <<ledgerVars, sheetVars, rankingVars, importVars, remoteVars>>
PassBackoffStep == (\E p \in Passes : PassBackoff(p)) /\ UNCHANGED <<ledgerVars, sheetVars, rankingVars, importVars, remoteVars>>
DirectCallStep == (\E type \in OpTypes : DirectCall(type)) /\ UNCHANGED <<ledgerVars, sheetVars, rankingVars, importVars, remoteVars>>
DirectWriteOkStep == DirectWriteOk /\ UNCHANGED <<ledgerVars, sheetVars, rankingVars, importVars, remoteVars>>
DirectWriteFailStep == (\E error \in RemoteErrors : DirectWriteFail(error)) /\ UNCHANGED <<ledgerVars, sheetVars, rankingVars, importVars, remoteVars>>
DirectBackoffStep == DirectBackoff /\ UNCHANGED <<ledgerVars, sheetVars, rankingVars, importVars, remoteVars>>
DirectReturnStep == DirectReturn /\ UNCHANGED <<ledgerVars, sheetVars, rankingVars, importVars, remoteVars>>
ConnectivityStep == (\E b \in BOOLEAN : SetOnline(b)) /\ UNCHANGED <<ledgerVars, sheetVars, rankingVars, importVars, remoteVars>>
ReauthenticateStep == Reauthenticate /\ UNCHANGED <<ledgerVars, sheetVars, rankingVars, importVars, remoteVars>>

QNext ==
    \/ ProcessStep
    \/ PassLoopStep
    \/ PassWriteOkStep
    \/ PassWriteFailStep
    \/ PassBackoffStep
    \/ DirectCallStep
    \/ DirectWriteOkStep
    \/ DirectWriteFailStep
    \/ DirectBackoffStep
    \/ DirectReturnStep
    \/ ConnectivityStep
    \/ ReauthenticateStep

SpecQueue == QInit /\ [][QNext]_vars

(***************************************************************************)
(* SpecConflicts: one resolveSyncConflicts call on a sheet of NumRows data *)
(* rows and NumLocal local books, with its remote writes and connectivity. *)
(***************************************************************************)
CInit ==
    /\ LedgerInit
    /\ QueueInit
    /\ resolve = IdleResolve
    /\ RankingIdle
    /\ ImportIdle /\ RemoteIdle
    /\ \E rows \in [1..NumRows -> RemoteRowInputs] : sheet = <<HeaderRow>> \o rows

ResolveCallStep ==
    /\ resolve.pc = "idle"
    /\ \E localBooks \in [1..NumLocal -> LocalBookInputs] : ResolveCall(localBooks)
    /\ UNCHANGED <<ledgerVars, isProcessing, pass, direct, issued, hist, rankingVars, importVars, remoteVars>>

ResolveLoopStep == ResolveLoop /\ UNCHANGED <<ledgerVars, isProcessing, pass, direct, issued, hist, rankingVars, importVars, remoteVars>>
ResolveWriteOkStep ==
    ResolveWriteOk /\ UNCHANGED <<ledgerVars, isProcessing, pass, direct, issued, hist, rankingVars, importVars, remoteVars>>
ResolveWriteFailStep ==
    ResolveWriteFail /\ UNCHANGED <<ledgerVars, isProcessing, pass, direct, issued, hist, rankingVars, importVars, remoteVars>>
ResolveConnectivityStep ==
    ResolveConnectivity /\ UNCHANGED <<ledgerVars, isProcessing, pass, direct, issued, hist, rankingVars, importVars, remoteVars>>

CNext ==
    \/ ResolveCallStep
    \/ ResolveLoopStep
    \/ ResolveWriteOkStep
    \/ ResolveWriteFailStep
    \/ ResolveConnectivityStep

SpecConflicts == CInit /\ [][CNext]_vars

(***************************************************************************)
(* SpecRanking: snapshots of a library whose books hold ratings the replay *)
(* and the initialization produce, and rank lookups on the snapshots.      *)
(***************************************************************************)
RatingInputs == {NoRating, <<INITIAL_RATING>>, <<1516>>}

RInit ==
    /\ books \in [BookIds -> [rating : RatingInputs]]
    /\ comparisons = <<>>
    /\ calls = [c \in Callers |-> IdleCall]
    /\ replays = 0
    /\ ledgerAtCall = [c \in Callers |-> <<>>]
    /\ QueueInit
    /\ online = TRUE
    /\ SheetIdle
    /\ RankingIdle
    /\ ImportIdle /\ RemoteIdle

UpdateCurrentRankingStep ==
    /\ updateCurrentRanking
    /\ UNCHANGED <<comparisons, calls, replays, ledgerAtCall, queueVars, sheetVars, importVars, remoteVars>>

GetBookRankStep ==
    /\ \E bookId \in BookIds : GetBookRank(Len(rankings), bookId)
    /\ UNCHANGED <<comparisons, calls, replays, ledgerAtCall, queueVars, sheetVars, importVars, remoteVars>>

GetBookByRankStep ==
    /\ \E position \in 0..(NumBooks + 1) : GetBookByRank(Len(rankings), position)
    /\ UNCHANGED <<comparisons, calls, replays, ledgerAtCall, queueVars, sheetVars, importVars, remoteVars>>

RNext ==
    \/ UpdateCurrentRankingStep
    \/ GetBookRankStep
    \/ GetBookByRankStep
    \/ InitializeRatingsStep
    \/ DeleteStep

SpecRanking == RInit /\ [][RNext]_vars

(***************************************************************************)
(* SpecEndToEnd: three books a, b, c of an unrated library have been       *)
(* compared (a beats b, b beats c, a beats c, recorded in any order); the  *)
(* ledger is replayed and a snapshot is taken.                             *)
(***************************************************************************)
\* The ledger after the three records, in the order given.
ThreeRecords(a, b, c, order) ==
    LET recs == <<Comparison(a, b, a), Comparison(b, c, b), Comparison(a, c, a)>>
    IN  [k \in 1..3 |-> recs[order[k]]]

EInit ==
    /\ books = [id \in BookIds |-> [rating |-> NoRating]]
    /\ \E a \in BookIds, b \in BookIds, c \in BookIds :
          /\ a # b /\ b # c /\ a # c
          /\ \E order \in [1..3 -> 1..3] :
                /\ \A i, j \in 1..3 : order[i] = order[j] => i = j
                /\ comparisons = ThreeRecords(a, b, c, order)
    /\ calls = [c \in Callers |-> IdleCall]
    /\ replays = 0
    /\ ledgerAtCall = [c \in Callers |-> <<>>]
    /\ QueueInit
    /\ online = TRUE
    /\ SheetIdle
    /\ RankingIdle
    /\ ImportIdle /\ RemoteIdle

\* updateCurrentRanking, awaited like every other user action.
SnapshotStep ==
    /\ NoTaskInFlight
    /\ updateCurrentRanking
    /\ UNCHANGED <<comparisons, calls, replays, ledgerAtCall, queueVars, sheetVars, importVars, remoteVars>>

ENext ==
    \/ ReplayStep
    \/ ReplayReadStep
    \/ ReplayPersistStep
    \/ ReturnStep
    \/ SnapshotStep

SpecEndToEnd == EInit /\ [][ENext]_vars

(***************************************************************************)
(* SpecImport: a library filled by imports, with deletions and records of  *)
(* comparisons between the stored books.                                   *)
(***************************************************************************)
IInit ==
    /\ books = <<>>
    /\ comparisons = <<>>
    /\ calls = [c \in Callers |-> IdleCall]
    /\ replays = 0
    /\ ledgerAtCall = [c \in Callers |-> <<>>]
    /\ QueueInit
    /\ online = TRUE
    /\ SheetIdle
    /\ RankingIdle
    /\ ImportIdle /\ RemoteIdle

ImportStep ==
    /\ NoTaskInFlight
    /\ \E n \in 1..MaxSheetRows : \E rows \in [1..n -> SheetTitles] : Import(rows)
    /\ UNCHANGED <<queueVars, sheetVars, rankingVars, remoteVars>>

\* A comparison of two stored books is recorded.
StoredPairRecordStep ==
    /\ NoTaskInFlight
    /\ \E a \in DOMAIN books, b \in DOMAIN books, w \in DOMAIN books :
           a < b /\ w \in {a, b} /\ StoreCall(1, "record", a, b, w)
    /\ UNCHANGED <<queueVars, sheetVars, rankingVars, importVars, remoteVars>>

INext ==
    \/ ImportStep
    \/ DeleteStep
    \/ StoredPairRecordStep
    \/ StoreResumeStep
    \/ ReturnStep

SpecImport == IInit /\ [][INext]_vars

(***************************************************************************)
(* SpecRestart: the page is loaded with a blob of up to MaxStored          *)
(* operations left by an earlier session; passes, application calls,       *)
(* connectivity changes and a reload follow.                               *)
(***************************************************************************)
MaxStored == 2

\* The operations of the blob are those of one earlier application call.
StoredOps == [type : {"append_books"}, payload : {1}, retries : 0..(RetryCeiling - 1)]
                \cup [type : {"update_book_row"}, payload : {1}, retries : {0}]

SInit ==
    /\ LedgerInit
    /\ SheetIdle
    /\ RankingIdle
    /\ ImportIdle /\ RemoteIdle
    /\ \E n \in 0..MaxStored : \E q \in [1..n -> StoredOps] :
          /\ storage = saveToStorage(q)
          /\ queue = loadFromStorage(storage)
    /\ isProcessing = FALSE
    /\ online \in BOOLEAN
    /\ pass = [p \in Passes |-> IdlePass]
    /\ direct = IdleDirect
    /\ issued = 0
    /\ hist = NoHistory

\* The page is loaded again while no pass is in progress.
RestartStep ==
    /\ \A p \in Passes : pass[p].pc = "idle"
    /\ Restart
    /\ UNCHANGED <<ledgerVars, sheetVars, rankingVars, importVars, remoteVars>>

\* The remote writes that fail are rejected with 401 or 403 (no backoff follows).
AuthErrors == {error \in RemoteErrors : error.kind = "auth"}

PassWriteRejectedStep ==
    /\ \E p \in Passes, error \in AuthErrors : PassWriteFail(p, error)
    /\ UNCHANGED <<ledgerVars, sheetVars, rankingVars, importVars, remoteVars>>

\* The application's write calls are made while offline: add() outside a pass.
OfflineCallStep ==
    /\ ~isOnline
    /\ \E type \in OpTypes : DirectCall(type)
    /\ UNCHANGED <<ledgerVars, sheetVars, rankingVars, importVars, remoteVars>>

SNext ==
    \/ ProcessStep
    \/ PassLoopStep
    \/ PassWriteOkStep
    \/ PassWriteRejectedStep
    \/ OfflineCallStep
    \/ DirectReturnStep
    \/ ConnectivityStep
    \/ RestartStep

SpecRestart == SInit /\ [][SNext]_vars

(***************************************************************************)
(* SpecAbsorb: passes over a loaded queue that may hold operations of a    *)
(* type executeOperation does not know, with remote writes that fail and   *)
(* a store that may refuse the write of the blob.                          *)
(***************************************************************************)
LoadedOps == StoredOps \cup [type : {"delete_book"}, payload : {1}, retries : 0..(RetryCeiling - 1)]

AInit ==
    /\ LedgerInit
    /\ SheetIdle
    /\ RankingIdle
    /\ ImportIdle /\ RemoteIdle
    /\ \E n \in 0..MaxStored : \E q \in [1..n -> LoadedOps] :
          /\ storage = saveToStorage(q)
          /\ queue = loadFromStorage(storage)
    /\ isProcessing = FALSE
    /\ online \in BOOLEAN
    /\ pass = [p \in Passes |-> IdlePass]
    /\ direct = IdleDirect
    /\ issued = 0
    /\ hist = NoHistory

PassUnknownStep ==
    /\ \E p \in Passes : PassUnknown(p)
    /\ UNCHANGED <<ledgerVars, sheetVars, rankingVars, importVars, remoteVars>>

PassEndStorageErrorStep ==
    /\ \E p \in Passes : PassEndStorageError(p)
    /\ UNCHANGED <<ledgerVars, sheetVars, rankingVars, importVars, remoteVars>>

ANext ==
    \/ ProcessStep
    \/ PassLoopStep
    \/ PassWriteOkStep
    \/ PassWriteFailStep
    \/ PassBackoffStep
    \/ PassUnknownStep
    \/ PassEndStorageErrorStep
    \/ ConnectivityStep

SpecAbsorb == AInit /\ [][ANext]_vars

(***************************************************************************)
(* SpecRankingHistory: snapshots stored at any clock values, and the       *)
(* latest snapshot and the history read back.                              *)
(***************************************************************************)
UpdateCurrentRankingAtStep ==
    /\ \E now \in Timestamps : UpdateCurrentRankingAt(now)
    /\ UNCHANGED <<comparisons, calls, replays, ledgerAtCall, queueVars, sheetVars, importVars, remoteVars>>

GetLatestRankingStep ==
    /\ GetLatestRanking
    /\ UNCHANGED <<comparisons, calls, replays, ledgerAtCall, queueVars, sheetVars, importVars, remoteVars>>

GetAllRankingsHistoryStep ==
    /\ \E limit \in Limits : GetAllRankingsHistory(limit)
    /\ UNCHANGED <<comparisons, calls, replays, ledgerAtCall, queueVars, sheetVars, importVars, remoteVars>>

HNext ==
    \/ UpdateCurrentRankingAtStep
    \/ GetLatestRankingStep
    \/ GetAllRankingsHistoryStep

SpecRankingHistory == RInit /\ [][HNext]_vars

(***************************************************************************)
(* SpecComparisonHistory: getComparisonHistory on a ledger of comparisons  *)
(* stored at any clock values (one comparison per pair).                   *)
(***************************************************************************)
\* A stored comparison with the timestamp the constructor gave it.
TimedComparisons ==
    {[bookA |-> a, bookB |-> b, winner |-> w, timestamp |-> t] :
        a \in BookIds, b \in BookIds, w \in BookIds, t \in Timestamps}

LInit ==
    /\ books = [id \in BookIds |-> [rating |-> NoRating]]
    /\ \E n \in 0..MaxLedger : \E ledger \in [1..n -> {c \in TimedComparisons :
                                       c.bookA < c.bookB /\ c.winner \in {c.bookA, c.bookB}}] :
          /\ \A j \in 1..n, k \in 1..n :
                (ledger[j].bookA = ledger[k].bookA /\ ledger[j].bookB = ledger[k].bookB) => j = k
          /\ comparisons = ledger
    /\ calls = [c \in Callers |-> IdleCall]
    /\ replays = 0
    /\ ledgerAtCall = [c \in Callers |-> <<>>]
    /\ QueueInit
    /\ online = TRUE
    /\ SheetIdle
    /\ RankingIdle
    /\ ImportIdle /\ RemoteIdle

GetComparisonHistoryStep ==
    /\ \E bookId \in BookIds, limit \in Limits : GetComparisonHistory(bookId, limit)
    /\ UNCHANGED <<comparisons, calls, replays, ledgerAtCall, queueVars, sheetVars, importVars, remoteVars>>

LNext == GetComparisonHistoryStep

SpecComparisonHistory == LInit /\ [][LNext]_vars

(***************************************************************************)
(* SpecDeterminism: processAllComparisons run twice on the same ledger,    *)
(* each time on a library whose books are all unrated.                     *)
(***************************************************************************)
\* The library with no book rated, as the books are when they are added.
ColdBaseline(store) == [id \in DOMAIN store |-> [store[id] EXCEPT !.rating = NoRating]]

\* The ratings the first run ended with are kept for the comparison and the
\* library is put back to the baseline the first run started from.
ColdStart ==
    /\ NoTaskInFlight
    /\ replays = 1
    /\ lookup = NoLookup
    /\ lookup' = [kind |-> "processAllComparisons", ranking |-> 0, arg |-> comparisons,
                  result |-> books]
    /\ books' = ColdBaseline(books)
    /\ UNCHANGED <<comparisons, calls, replays, ledgerAtCall, rankings>>

ColdStartStep == ColdStart /\ UNCHANGED <<queueVars, sheetVars, importVars, remoteVars>>

DNext ==
    \/ ReplayStep
    \/ ReplayReadStep
    \/ ReplayPersistStep
    \/ ReturnStep
    \/ ColdStartStep

SpecDeterminism == LInit /\ [][DNext]_vars

(***************************************************************************)
(* SpecElo: updateRatings applied to the ratings of a library whose books  *)
(* hold ratings around the initial one.                                    *)
(***************************************************************************)
MaxSpread == 2

EloRatings == {<<INITIAL_RATING + (K_FACTOR \div 2) * k>> : k \in (0 - MaxSpread)..MaxSpread}

EloInit ==
    /\ books \in [BookIds -> [rating : EloRatings]]
    /\ comparisons = <<>>
    /\ calls = [c \in Callers |-> IdleCall]
    /\ replays = 0
    /\ ledgerAtCall = [c \in Callers |-> <<>>]
    /\ QueueInit
    /\ online = TRUE
    /\ SheetIdle
    /\ RankingIdle
    /\ ImportIdle /\ RemoteIdle

UpdateRatingsStep ==
    /\ \E bookA \in BookIds, bookB \in BookIds, outcome2 \in 0..2 :
          UpdateRatings(bookA, bookB, outcome2)
    /\ UNCHANGED <<comparisons, calls, replays, ledgerAtCall, queueVars, sheetVars, importVars, remoteVars>>

TestEloCalculationsStep ==
    /\ testEloCalculations
    /\ UNCHANGED <<comparisons, calls, replays, ledgerAtCall, queueVars, sheetVars, importVars, remoteVars>>

EloNext ==
    \/ UpdateRatingsStep
    \/ TestEloCalculationsStep

SpecElo == EloInit /\ [][EloNext]_vars

(***************************************************************************)
(* SpecCrash: passes over a loaded queue whose operations are those of     *)
(* different calls, with the requests the remote sheet carries out, and    *)
(* the page loaded again at any moment, in the middle of a pass too.       *)
(***************************************************************************)
MaxWrites == 3

\* The request of a queued operation has been carried out by the remote sheet.
Written(log, operation) == Append(log, [type |-> operation.type, payload |-> operation.payload])

\* The blob holds one operation per earlier call, the operation of call k at place k.
CrashInit ==
    /\ LedgerInit
    /\ SheetIdle
    /\ RankingIdle
    /\ ImportIdle
    /\ RemoteIdle
    /\ \E n \in 0..MaxCalls : \E q \in [1..n -> StoredOps \cup [type : OpTypes, payload : Payloads, retries : {0}]] :
          /\ \A k \in 1..n : q[k].payload = k
          /\ storage = saveToStorage(q)
          /\ queue = loadFromStorage(storage)
    /\ isProcessing = FALSE
    /\ online \in BOOLEAN
    /\ pass = [p \in Passes |-> IdlePass]
    /\ direct = IdleDirect
    /\ issued = 0
    /\ hist = NoHistory

\* The remote write of the pass's current operation succeeds: the sheet has
\* carried out the request.
CrashWriteOkStep ==
    /\ Len(remote) < MaxWrites
    /\ \E p \in Passes :
          /\ PassWriteOk(p)
          /\ remote' = Written(remote, queue[pass[p].i])
    /\ UNCHANGED <<sync, retry, form, ledgerVars, sheetVars, rankingVars, importVars>>

\* The page is loaded again, whatever the old page was doing.
CrashStep == Restart /\ UNCHANGED <<ledgerVars, sheetVars, rankingVars, importVars, remoteVars>>

CrashNext ==
    \/ ProcessStep
    \/ PassLoopStep
    \/ CrashWriteOkStep
    \/ PassWriteRejectedStep
    \/ ConnectivityStep
    \/ CrashStep

SpecCrash == CrashInit /\ [][CrashNext]_vars

(***************************************************************************)
(* SpecSync: syncToSheets over a library of one item, with the queue, its  *)
(* passes and the requests the remote sheet carries out.  A queued         *)
(* operation's payload is the id of its item.                              *)
(***************************************************************************)
MaxSyncs == 2

\* The rows the sheet holds after the requests of the log: one per append.
Rows(log) == Cardinality({k \in 1..Len(log) : log[k].type = "append_books"})

\* The filter of syncToSheets: the items to sync (0 is the absent row index).
booksToSync(store) == {id \in DOMAIN store : store[id].needsSync \/ store[id].sheetRowIndex = 0}

\* The library holds one item: not yet in the sheet, or in the sheet's row 1
\* by an earlier append, and in both cases with or without a change to sync.
SyncInit ==
    /\ \E b \in Payloads, needsSync \in BOOLEAN, row \in 0..1 :
          /\ books = [id \in {b} |->
                         [rating |-> NoRating, needsSync |-> needsSync, sheetRowIndex |-> row]]
          /\ remote = IF row = 0 THEN <<>> ELSE Written(<<>>, [type |-> "append_books", payload |-> b])
    /\ sync = IdleSync
    /\ retry = IdleRetry
    /\ form = EmptyForm
    /\ comparisons = <<>>
    /\ calls = [c \in Callers |-> IdleCall]
    /\ replays = 0
    /\ ledgerAtCall = [c \in Callers |-> <<>>]
    /\ QueueInit
    /\ SheetIdle
    /\ RankingIdle
    /\ ImportIdle

\* syncToSheets(spreadsheetId) up to the first await of a request: the filter,
\* then appendBooksToSheets for a new item or updateBookInSheets for one that has
\* a row; offline, the callee queues the operation and returns { queued: true }.
SyncCall ==
    /\ NoMicrotaskPending
    /\ sync.pc \in {"idle", "done"}
    /\ IF booksToSync(books) = {}
       THEN /\ sync' = [IdleSync EXCEPT !.pc = "done", !.result = "nothing"]
            /\ UNCHANGED <<books, queue, storage>>
       ELSE \E b \in booksToSync(books) :
              LET type == IF books[b].sheetRowIndex = 0 THEN "append_books"
                          ELSE "update_book_row"
              IN  IF ~isOnline
                  THEN /\ Len(queue) < MaxQueue
                       /\ queue' = add(queue, type, b)
                       /\ storage' = saveToStorage(queue')
                       /\ IF type = "append_books"
                          THEN \* appendResult.success is undefined
                               /\ sync' = [IdleSync EXCEPT !.pc = "done", !.book = b,
                                               !.type = type, !.result = "queued"]
                               /\ UNCHANGED books
                          ELSE \* lines 1352-1354 follow the call whatever it returned
                               /\ books' = put(books, b, [books[b] EXCEPT !.needsSync = FALSE])
                               /\ sync' = [IdleSync EXCEPT !.pc = "done", !.book = b,
                                               !.type = type, !.result = "queued",
                                               !.marked = TRUE, !.booksUpdated = 1]
                  ELSE /\ sync' = [IdleSync EXCEPT !.pc = "write", !.book = b, !.type = type]
                       /\ UNCHANGED <<books, queue, storage>>
    /\ UNCHANGED <<remote, retry, form, comparisons, calls, replays, ledgerAtCall, isProcessing, online,
                   pass, direct, issued, hist>>

\* The request of the call succeeds.  An append sets sheetRowIndex on the item
\* of the call, and the call stores it with needsSync = false.
SyncWriteOk ==
    /\ NoMicrotaskPending
    /\ sync.pc = "write"
    /\ Len(remote) < MaxWrites
    /\ remote' = Written(remote, [type |-> sync.type, payload |-> sync.book])
    /\ IF sync.type = "append_books"
       THEN /\ books' = put(books, sync.book,
                              [books[sync.book] EXCEPT !.needsSync = FALSE,
                                                       !.sheetRowIndex = Rows(remote')])
            /\ sync' = [sync EXCEPT !.pc = "done", !.result = "success", !.marked = TRUE,
                                    !.newBooksAdded = 1]
       ELSE /\ books' = put(books, sync.book, [books[sync.book] EXCEPT !.needsSync = FALSE])
            /\ sync' = [sync EXCEPT !.pc = "done", !.result = "success", !.marked = TRUE,
                                    !.booksUpdated = 1]
    /\ UNCHANGED <<retry, form, comparisons, calls, replays, ledgerAtCall, queueVars>>

\* The request of the call fails with `error`.  updateBookInSheets queues the
\* operation on any error and returns; appendBooksToSheets waits and tries
\* again, queues and returns, or throws into the catch block of syncToSheets.
SyncWriteFail(error) ==
    /\ NoMicrotaskPending
    /\ sync.pc = "write"
    /\ IF sync.type = "update_book_row"
       THEN /\ Len(queue) < MaxQueue
            /\ queue' = add(queue, sync.type, sync.book)
            /\ storage' = saveToStorage(queue')
            /\ books' = put(books, sync.book, [books[sync.book] EXCEPT !.needsSync = FALSE])
            /\ sync' = [sync EXCEPT !.pc = "done", !.result = "queued", !.marked = TRUE,
                                    !.booksUpdated = 1]
       ELSE IF AppendFailure(error, sync.attempt) = "backoff"
       THEN /\ sync' = [sync EXCEPT !.attempt = @ + 1]
            /\ UNCHANGED <<books, queue, storage>>
       ELSE IF AppendFailure(error, sync.attempt) = "queued"
       THEN /\ Len(queue) < MaxQueue
            /\ queue' = add(queue, sync.type, sync.book)
            /\ storage' = saveToStorage(queue')
            /\ sync' = [sync EXCEPT !.pc = "done", !.result = "queued"]
            /\ UNCHANGED books
       ELSE /\ sync' = [sync EXCEPT !.pc = "done", !.result = "thrown", !.errors = 1]
            /\ UNCHANGED <<books, queue, storage>>
    /\ UNCHANGED <<remote, retry, form, comparisons, calls, replays, ledgerAtCall, isProcessing, online,
                   pass, direct, issued, hist>>

\* A call is made while fewer than MaxSyncs operations wait in the queue.
SyncCallStep == Len(queue) < MaxSyncs /\ SyncCall /\ UNCHANGED <<sheetVars, rankingVars, importVars>>

SyncWriteOkStep == SyncWriteOk /\ UNCHANGED <<sheetVars, rankingVars, importVars>>

SyncWriteFailStep ==
    (\E error \in RemoteErrors : SyncWriteFail(error))
        /\ UNCHANGED <<sheetVars, rankingVars, importVars>>

SyncNext ==
    \/ SyncCallStep
    \/ SyncWriteOkStep
    \/ SyncWriteFailStep
    \/ ProcessStep
    \/ PassLoopStep
    \/ CrashWriteOkStep
    \/ ConnectivityStep

SpecSync == SyncInit /\ [][SyncNext]_vars

(***************************************************************************)
(* SpecConcurrent: the ledger with the library view deleting an item while *)
(* processAllComparisons is suspended at one of its storage calls.         *)
(***************************************************************************)
\* The delete handler of the library view runs between two storage calls of a
\* replay: after the replay's getAllBooks, before the end of its final loop.
ConcurrentDeleteStep ==
    /\ \E c \in Callers : calls[c].pc = "persist"
    /\ \E id \in BookIds : deleteBook(id)
    /\ UNCHANGED <<queueVars, sheetVars, rankingVars, importVars, remoteVars>>

NextConcurrent ==
    \/ PairRecordStep
    \/ ReplayStep
    \/ StoreResumeStep
    \/ ReplayReadStep
    \/ ReplayPersistStep
    \/ ReturnStep
    \/ ConcurrentDeleteStep

SpecConcurrent == Init /\ [][NextConcurrent]_vars

(***************************************************************************)
(* SpecRetry: retryWithBackoff(operation) with the default maxRetries, an  *)
(* operation that succeeds or is rejected at each invocation, and the      *)
(* connectivity signal changing between invocations.                       *)
(***************************************************************************)
\* retryWithBackoff(operation) is called: the first iteration awaits operation().
RetryCall ==
    /\ retry.pc \in {"idle", "done"}
    /\ retry' = [IdleRetry EXCEPT !.pc = "invoke"]

\* `return await operation()`: the invocation succeeds.
RetryInvokeOk ==
    /\ retry.pc = "invoke"
    /\ retry' = [retry EXCEPT !.pc = "done", !.invocations = @ + 1, !.outcome = "returned"]

\* The invocation is rejected with `error`: the catch block.
RetryInvokeFail(error) ==
    /\ retry.pc = "invoke"
    /\ LET d == retryWithBackoff(error, retry.attempt)
       IN  IF d.next = "backoff"
           THEN retry' = [retry EXCEPT !.pc = "wait", !.invocations = @ + 1,
                                       !.lastError = error]
           ELSE retry' = [retry EXCEPT !.pc = "done", !.invocations = @ + 1,
                                       !.lastError = error, !.outcome = "thrown",
                                       !.thrown = d.error]

\* The timer of the backoff fires: attempt++ and the next iteration.
RetryTimer ==
    /\ retry.pc = "wait"
    /\ retry' = [retry EXCEPT !.pc = "invoke", !.attempt = @ + 1]

RetryCallStep ==
    RetryCall /\ UNCHANGED <<remote, sync, form, ledgerVars, queueVars, sheetVars, rankingVars, importVars>>

RetryInvokeOkStep ==
    RetryInvokeOk /\ UNCHANGED <<remote, sync, form, ledgerVars, queueVars, sheetVars, rankingVars, importVars>>

RetryInvokeFailStep ==
    (\E error \in RemoteErrors : RetryInvokeFail(error))
        /\ UNCHANGED <<remote, sync, form, ledgerVars, queueVars, sheetVars, rankingVars, importVars>>

RetryTimerStep ==
    RetryTimer /\ UNCHANGED <<remote, sync, form, ledgerVars, queueVars, sheetVars, rankingVars, importVars>>

RetryNext ==
    \/ RetryCallStep
    \/ RetryInvokeOkStep
    \/ RetryInvokeFailStep
    \/ RetryTimerStep
    \/ ConnectivityStep

SpecRetry == QInit /\ [][RetryNext]_vars

(***************************************************************************)
(* SpecReimport: an empty library and one sheet that is imported again and *)
(* again, with deletions and records of comparisons between the imports.   *)
(***************************************************************************)
\* The data rows of the sheet (the author, date, genre and rating cells are
\* the same in every row).
SheetRowInputs == {<<title, "Herbert", "2020", "SciFi", "">> : title \in SheetTitles}

ReInit ==
    /\ books = <<>>
    /\ comparisons = <<>>
    /\ calls = [c \in Callers |-> IdleCall]
    /\ replays = 0
    /\ ledgerAtCall = [c \in Callers |-> <<>>]
    /\ QueueInit
    /\ online = TRUE
    /\ resolve = IdleResolve
    /\ RankingIdle
    /\ ImportIdle
    /\ RemoteIdle
    /\ \E n \in 1..MaxSheetRows : \E rows \in [1..n -> SheetRowInputs] :
          sheet = <<HeaderRow>> \o rows

\* The import handler on the sheet as it is: readSheetData, then
\* parseSheetDataToBooks and importBooksToDB on the title cells of its data rows.
SheetImportStep ==
    /\ NoTaskInFlight
    /\ Import([k \in 1..(Len(sheet) - 1) |-> sheet[k + 1][1]])
    /\ UNCHANGED <<queueVars, sheetVars, rankingVars, remoteVars>>

ReNext ==
    \/ SheetImportStep
    \/ DeleteStep
    \/ StoredPairRecordStep
    \/ StoreResumeStep
    \/ ReturnStep

SpecReimport == ReInit /\ [][ReNext]_vars

(***************************************************************************)
(* app.js: the add-book form.  A book given to validateBook carries the    *)
(* type of its rating ("undefined", "null" or "number"); an id that is     *)
(* undefined is 0.                                                         *)
(***************************************************************************)
\* validateBook: the errors it collects (datesRead is an array in every call,
\* and a rating that is a number is between 0 and 10).
validateBook(book) ==
    (IF trim(book.title) = "" THEN {"title"} ELSE {})
    \cup (IF trim(book.author) = "" THEN {"author"} ELSE {})
    \cup (IF book.id <= 0 THEN {"id"} ELSE {})
    \cup (IF book.ratingType # "undefined" /\ book.ratingType # "number" THEN {"rating"} ELSE {})

\* The object handleAddBook builds: no id property, rating: null.
NewBook(title, author) == [id |-> 0, title |-> title, author |-> author, ratingType |-> "null"]

\* importBooksToDB([book]) for a book that the store does not hold: the store
\* after the call and the errors it counted.
ImportOne(book, store) ==
    IF validateBook(book) # {} THEN [store |-> store, added |-> 0, errors |-> 1]
    ELSE [store |-> put(store, book.id, [rating |-> NoRating, title |-> book.title]),
          added |-> 1, errors |-> 0]

\* handleAddBook: the submit handler of the form with these field values.
HandleAddBook(titleField, authorField) ==
    LET title == trim(titleField)
        author == trim(authorField)
        importResults == ImportOne(NewBook(title, author), books)
    IN  IF title = "" \/ author = ""
        THEN /\ form' = [title |-> titleField, author |-> authorField,
                         status |-> "Title and author are required"]
             /\ UNCHANGED books
        ELSE /\ books' = importResults.store
             /\ form' = [title |-> titleField, author |-> authorField,
                         status |-> IF importResults.errors > 0
                                    THEN "Error adding book: Failed to add book"
                                    ELSE "Book added successfully!"]

(***************************************************************************)
(* SpecAddBook: the library of SpecReimport with the add-book form         *)
(* submitted between imports, deletions and records.                       *)
(***************************************************************************)
FormTitles == {"", "Dune", " dune", "Emma"}

FormAuthors == {"", "Herbert"}

HandleAddBookStep ==
    /\ NoTaskInFlight
    /\ \E titleField \in FormTitles, authorField \in FormAuthors :
          HandleAddBook(titleField, authorField)
    /\ UNCHANGED <<comparisons, calls, replays, ledgerAtCall, queueVars, sheetVars,
                   rankingVars, importVars, remote, sync, retry>>

AddNext ==
    \/ HandleAddBookStep
    \/ SheetImportStep
    \/ DeleteStep
    \/ StoredPairRecordStep
    \/ StoreResumeStep
    \/ ReturnStep

SpecAddBook == ReInit /\ [][AddNext]_vars

(***************************************************************************)
(* Claims about the ledger and the replay.                                 *)
(***************************************************************************)
\* What one replay of `ledger` over the same items, all unrated, produces.
FromScratch(ledger) ==
    ProcessLoop([id \in DOMAIN books |-> [rating |-> NoRating]], ledger, 1)

\* C1: replayAll is a full recomputation from scratch: whenever a run of
\* processAllComparisons has finished, the persisted rating of every item is the
\* one a single replay of the ledger from unrated items produces, whatever the
\* ratings stored before the run.
C1_ReplayFromScratch ==
    \A c \in Callers :
        (calls[c].pc = "done" /\ calls[c].result = "replayed") =>
            \A id \in DOMAIN books :
                books[id].rating = FromScratch(calls[c].allComparisons)[id].rating

\* C2: after any sequence of sequential record operations, successful or failed,
\* every ledger record has bookA < bookB, bookA # bookB and winner in {bookA, bookB},
\* and no two records have the same unordered pair.
C2_LedgerCanonical ==
    /\ \A i \in 1..Len(comparisons) :
          /\ comparisons[i].bookA < comparisons[i].bookB
          /\ comparisons[i].bookA # comparisons[i].bookB
          /\ comparisons[i].winner \in {comparisons[i].bookA, comparisons[i].bookB}
    /\ \A i, j \in 1..Len(comparisons) :
          i # j => {comparisons[i].bookA, comparisons[i].bookB}
                     # {comparisons[j].bookA, comparisons[j].bookB}

\* C2 witness: two records are stored and a further request has just failed.
C2_Witness ==
    /\ Len(comparisons) >= 2
    /\ calls[1].pc = "done"
    /\ calls[1].result \in {"duplicate", "invalid"}

\* C3: once a comparison for the pair (A,B) is in the ledger, a later record request
\* for (A,B) or (B,A), whichever of the two it names as winner, fails with the
\* duplicate-pair error and leaves the ledger exactly as it was.
C3_DuplicateRejected ==
    \A c \in Callers :
        (/\ calls[c].pc = "done"
         /\ calls[c].kind \in {"record", "choice"}
         /\ calls[c].args[1] # calls[c].args[2]
         /\ calls[c].args[3] \in {calls[c].args[1], calls[c].args[2]}
         /\ HasPair(ledgerAtCall[c], calls[c].args[1], calls[c].args[2]))
        => (calls[c].result = "duplicate" /\ comparisons = ledgerAtCall[c])

\* C3 witness: the pair was recorded as (A,B) with winner A, and a request for (B,A)
\* naming the other winner has failed with the duplicate-pair error.
C3_Witness ==
    \E c \in Callers :
        /\ calls[c].pc = "done"
        /\ calls[c].result = "duplicate"
        /\ calls[c].args[1] > calls[c].args[2]
        /\ \E i \in 1..Len(ledgerAtCall[c]) :
              /\ ledgerAtCall[c][i].bookA = calls[c].args[2]
              /\ ledgerAtCall[c][i].bookB = calls[c].args[1]
              /\ ledgerAtCall[c][i].winner # calls[c].args[3]

\* C10: under any interleaving of two storeComparison calls for the same unordered
\* pair at most one persists a record: the ledger never holds two records of one
\* pair, and two calls for the same pair never both report success.
C10_OneRecordPerPair ==
    /\ \A a, b \in BookIds :
          Cardinality({i \in 1..Len(comparisons) :
                          {comparisons[i].bookA, comparisons[i].bookB} = {a, b}}) <= 1
    /\ \A c1, c2 \in Callers :
          (/\ c1 # c2
           /\ calls[c1].result = "stored"
           /\ calls[c2].result = "stored"
           /\ ~HasPair(ledgerAtCall[c1], calls[c1].args[1], calls[c1].args[2])
           /\ ~HasPair(ledgerAtCall[c2], calls[c2].args[1], calls[c2].args[2]))
          => {calls[c1].args[1], calls[c1].args[2]} # {calls[c2].args[1], calls[c2].args[2]}


\* A replay task that has run its in-memory pass over the ledger.
Replayed(c) ==
    \/ calls[c].pc = "persist"
    \/ calls[c].pc = "done" /\ calls[c].result \in {"replayed", "failed"}

\* C11: when a replay has failed part-way (a storage write of the final loop was
\* rejected), every item's persisted rating is the one it had before the replay.
C11_FailedReplayUntouched ==
    \A c \in Callers :
        (calls[c].pc = "done" /\ calls[c].result = "failed") =>
            \A id \in DOMAIN calls[c].booksBefore :
                /\ id \in DOMAIN books
                /\ books[id].rating = calls[c].booksBefore[id].rating

\* The books two of whose comparisons in `ledger` are played (both books exist).
Touched(bookList, ledger) ==
    {id \in DOMAIN bookList :
        \E i \in 1..Len(ledger) :
            /\ id \in {ledger[i].bookA, ledger[i].bookB}
            /\ ledger[i].bookA \in DOMAIN bookList
            /\ ledger[i].bookB \in DOMAIN bookList}

\* The default given once, up front, to the unrated books that are played.
WithDefaults(bookList, ledger) ==
    [id \in DOMAIN bookList |->
        IF id \in Touched(bookList, ledger) /\ ~IsNumber(bookList[id].rating)
        THEN [bookList[id] EXCEPT !.rating = <<INITIAL_RATING>>]
        ELSE bookList[id]]

\* The Elo updates of `ledger` on books that all hold a rating, with no defaulting.
RECURSIVE RatedLoop(_, _, _)
RatedLoop(bookList, ledger, i) ==
    IF i > Len(ledger) THEN bookList
    ELSE LET comp == ledger[i]
         IN  IF comp.bookA \notin DOMAIN bookList \/ comp.bookB \notin DOMAIN bookList
             THEN RatedLoop(bookList, ledger, i + 1)
             ELSE LET result == updateRatings(bookList[comp.bookA].rating[1],
                                              bookList[comp.bookB].rating[1],
                                              IF comp.winner = comp.bookA THEN 2 ELSE 0)
                  IN  RatedLoop([bookList EXCEPT ![comp.bookA].rating = <<result.ratingA>>,
                                                 ![comp.bookB].rating = <<result.ratingB>>],
                                ledger, i + 1)

Playable(bookList, ledger) ==
    SelectSeq(ledger, LAMBDA comp : comp.bookA \in DOMAIN bookList /\ comp.bookB \in DOMAIN bookList)

\* C13: a replay over a ledger with comparisons that reference deleted items runs to
\* its save loop and computes exactly what the replay of the other comparisons, in
\* ledger order, computes: the dangling comparisons change no rating.
C13_DanglingSkipped ==
    \A c \in Callers :
        /\ (calls[c].pc = "done" /\ calls[c].kind = "replay")
              => calls[c].result \in {"replayed", "failed", "nothing"}
        /\ Replayed(c) =>
              calls[c].booksMap =
                  ProcessLoop(calls[c].booksBefore,
                              Playable(calls[c].booksBefore, calls[c].allComparisons), 1)

\* A replay has completed over a ledger holding a comparison with a deleted item,
\* whose other item exists, and a comparison that was played.
C13_Witness ==
    \E c \in Callers :
        /\ calls[c].pc = "done"
        /\ calls[c].result = "replayed"
        /\ \E i, j \in 1..Len(calls[c].allComparisons) :
              /\ calls[c].allComparisons[i].bookA \notin DOMAIN calls[c].booksBefore
              /\ calls[c].allComparisons[i].bookB \in DOMAIN calls[c].booksBefore
              /\ calls[c].allComparisons[j].bookA \in DOMAIN calls[c].booksBefore
              /\ calls[c].allComparisons[j].bookB \in DOMAIN calls[c].booksBefore

\* C14: a record request with itemA = itemB, or with a winner that is neither item,
\* fails with the validation error and leaves the ledger as it was.
C14_InvalidRejected ==
    \A c \in Callers :
        (/\ calls[c].pc = "done"
         /\ calls[c].kind \in {"record", "choice"}
         /\ \/ calls[c].args[1] = calls[c].args[2]
            \/ calls[c].args[3] \notin {calls[c].args[1], calls[c].args[2]})
        => (calls[c].result = "invalid" /\ comparisons = ledgerAtCall[c])

\* record(n, n, n) has failed on a ledger that holds a record.
C14_Witness ==
    \E c \in Callers :
        /\ calls[c].pc = "done"
        /\ calls[c].result = "invalid"
        /\ calls[c].args[1] = calls[c].args[2]
        /\ calls[c].args[2] = calls[c].args[3]
        /\ Len(comparisons) = 1

(***************************************************************************)
(* Claims about resolveSyncConflicts (SpecConflicts).                      *)
(***************************************************************************)
\* The sheet rows (1-based, the header is row 1) whose title and author equal the
\* book's, compared case-insensitively.
MatchingRows(book, remoteData) ==
    {j \in 2..Len(remoteData) :
        /\ toLowerCase(trim(remoteData[j][1])) = toLowerCase(book.title)
        /\ toLowerCase(trim(remoteData[j][2])) = toLowerCase(book.author)}

\* The rating cell of a sheet row holds a value.
CellHasValue(row) == row[5] # ""

RequestedFor(id) == \E k \in 1..Len(resolve.requests) : resolve.requests[k].bookId = id

\* C15: resolveSyncConflicts records a conflict for a local book if and only if a
\* remote row with the same case-insensitive title and author exists, the local
\* and the remote rating both hold a value, and the two values differ; a book
\* whose rating, or whose remote rating cell, holds no value gets no conflict and
\* no remote write.
C15_ConflictIffBothRated ==
    resolve.pc # "idle" =>
        \A id \in 1..Len(resolve.localBooks) :
            LET book == resolve.localBooks[id]
                rows == MatchingRows(book, resolve.remoteData)
                unrated == \/ ~IsNumber(book.rating)
                           \/ \A j \in rows : ~CellHasValue(resolve.remoteData[j])
            IN  /\ (\E k \in 1..Len(resolve.conflicts) : resolve.conflicts[k].bookId = id)
                   <=> (\E j \in rows :
                           /\ IsNumber(book.rating)
                           /\ CellHasValue(resolve.remoteData[j])
                           /\ book.rating[1] # parseFloat(resolve.remoteData[j][5]))
                /\ unrated => ~RequestedFor(id)

\* C16: a resolution entry says 'local_preferred' only if the remote row was
\* actually overwritten, and says 'failed' whenever the remote write did not
\* succeed (it was rejected, or the client was offline and it was only queued).
C16_TruthfulOutcome ==
    \A k \in 1..Len(resolve.resolutions) :
        /\ resolve.resolutions[k].resolution = "local_preferred"
              => resolve.outcomes[k] = "written"
        /\ resolve.outcomes[k] # "written"
              => resolve.resolutions[k].resolution = "failed"

\* C17: every recorded conflict gets exactly one resolution entry and exactly one
\* write request (one updateBookInSheets call), addressed to the row of the
\* matching remote record and carrying the local book's rating; totalConflicts
\* equals the number of resolution entries; a local book with no matching row, or
\* with a rating equal to the remote one, causes no write request.
C17_OneWritePerConflict ==
    resolve.pc # "idle" =>
        LET n == Len(resolve.requests)
        IN  /\ n = Len(resolve.resolutions) + (IF resolve.pc = "write" THEN 1 ELSE 0)
            /\ n <= Len(resolve.conflicts)
            /\ resolve.pc = "done" =>
                  /\ n = Len(resolve.conflicts)
                  /\ resolve.result.totalConflicts = Len(resolve.result.resolutions)
                  /\ resolve.result.totalConflicts = Len(resolve.conflicts)
            /\ \A k1, k2 \in 1..Len(resolve.conflicts) :
                  resolve.conflicts[k1].bookId = resolve.conflicts[k2].bookId => k1 = k2
            /\ \A k \in 1..n :
                  LET conflict == resolve.conflicts[k]
                      book == resolve.localBooks[conflict.bookId]
                      rows == MatchingRows(book, resolve.remoteData)
                  IN  /\ resolve.requests[k].bookId = conflict.bookId
                      /\ rows # {}
                      /\ resolve.requests[k].rowIndex \in rows
                      /\ \A j \in rows : j <= resolve.requests[k].rowIndex
                      /\ resolve.requests[k].row[5] =
                            (IF IsNumber(book.rating) THEN toString(book.rating[1]) ELSE "")
                      /\ k <= Len(resolve.resolutions) =>
                            resolve.resolutions[k].bookId = conflict.bookId
            /\ \A id \in 1..Len(resolve.localBooks) :
                  LET book == resolve.localBooks[id]
                      rows == MatchingRows(book, resolve.remoteData)
                  IN  (\/ rows = {}
                       \/ \A j \in rows :
                             /\ IsNumber(book.rating)
                             /\ CellHasValue(resolve.remoteData[j])
                             /\ book.rating[1] = parseFloat(resolve.remoteData[j][5]))
                      => ~RequestedFor(id)

\* A call has returned after resolving local 8 against remote 7: one conflict entry
\* for it, resolved 'local_preferred', and the remote row now holds "8".
C17_Witness ==
    /\ resolve.pc = "done"
    /\ \E k \in 1..Len(resolve.conflicts) :
          /\ resolve.conflicts[k].local.rating = <<8>>
          /\ resolve.conflicts[k].remote.rating = <<7>>
          /\ resolve.outcomes[k] = "written"
          /\ resolve.result.resolutions[k].resolution = "local_preferred"
          /\ sheet[resolve.conflicts[k].rowIndex][5] = "8"
    /\ \E id \in 1..Len(resolve.localBooks) : ~RequestedFor(id)

\* C18: a resolution that overwrote a remote row changed its rating column only:
\* the title, author, date and genre cells of the row are what they were.
C18_RatingColumnOnly ==
    \A k \in 1..Len(resolve.outcomes) :
        resolve.outcomes[k] = "written" =>
            \A col \in 1..4 :
                sheet[resolve.conflicts[k].rowIndex][col]
                    = resolve.remoteData[resolve.conflicts[k].rowIndex][col]

(***************************************************************************)
(* Claims about the ranking snapshot (SpecRanking).                        *)
(***************************************************************************)
RankedIds(rankedBooks) == {rankedBooks[k].id : k \in 1..Len(rankedBooks)}

\* C19: a stored snapshot holds exactly the books that had a numeric rating when
\* it was calculated, each once and with that rating, in non-increasing rating
\* order; its metadata has ratedBooks = the number of ranked books and
\* ratedBooks + unratedBooks = totalBooks = the number of books read.
C19_SnapshotSorted ==
    \A r \in 1..Len(rankings) :
        LET rankedBooks == rankings[r].rankedBooks
            booksRead == rankings[r].booksRead
            metadata == rankings[r].metadata
            rated == {id \in DOMAIN booksRead : IsNumber(booksRead[id].rating)}
        IN  /\ RankedIds(rankedBooks) = rated
            /\ Len(rankedBooks) = Cardinality(rated)
            /\ \A k \in 1..Len(rankedBooks) :
                  rankedBooks[k].rating = booksRead[rankedBooks[k].id].rating
            /\ \A k \in 1..(Len(rankedBooks) - 1) :
                  rankedBooks[k].rating[1] >= rankedBooks[k + 1].rating[1]
            /\ metadata.ratedBooks = Len(rankedBooks)
            /\ metadata.ratedBooks + metadata.unratedBooks = metadata.totalBooks
            /\ metadata.totalBooks = Cardinality(DOMAIN booksRead)

\* A snapshot of a library with an unrated book, in which the sort moved a book
\* with a higher id and a higher rating to the front, and two books tie.
C19_Witness ==
    \E r \in 1..Len(rankings) :
        LET rankedBooks == rankings[r].rankedBooks
        IN  /\ rankings[r].metadata.unratedBooks >= 1
            /\ Len(rankedBooks) >= 2
            /\ rankedBooks[1].id > rankedBooks[2].id
            /\ rankedBooks[1].rating[1] > rankedBooks[2].rating[1]
            /\ \E q \in 1..Len(rankings) :
                  /\ Len(rankings[q].rankedBooks) >= 2
                  /\ rankings[q].rankedBooks[1].rating = rankings[q].rankedBooks[2].rating

\* C20: on a snapshot of n ranked books getBookRank and getBookByRank are inverse
\* of each other for the positions 1..n and the ids ranked; getBookByRank of a
\* position outside 1..n is null, and getBookRank of an id not ranked is null.
C20_RankLookupInverse ==
    /\ \A r \in 1..Len(rankings) :
          LET rankedBooks == rankings[r].rankedBooks
              n == Len(rankedBooks)
          IN  /\ \A p \in 1..n :
                    /\ getBookByRank(rankedBooks, p) # Null
                    /\ getBookRank(rankedBooks, getBookByRank(rankedBooks, p)[1].id) = <<p>>
              /\ \A id \in RankedIds(rankedBooks) :
                    /\ getBookRank(rankedBooks, id) # Null
                    /\ getBookByRank(rankedBooks, getBookRank(rankedBooks, id)[1])[1].id = id
              /\ \A p \in (-1..(NumBooks + 1)) \ (1..n) : getBookByRank(rankedBooks, p) = Null
              /\ \A id \in BookIds \ RankedIds(rankedBooks) : getBookRank(rankedBooks, id) = Null
    /\ lookup.kind = "getBookRank" =>
          LET rankedBooks == rankings[lookup.ranking].rankedBooks
          IN  IF lookup.arg \in RankedIds(rankedBooks)
              THEN /\ lookup.result # Null
                   /\ lookup.result[1] \in 1..Len(rankedBooks)
                   /\ rankedBooks[lookup.result[1]].id = lookup.arg
              ELSE lookup.result = Null
    /\ lookup.kind = "getBookByRank" =>
          LET rankedBooks == rankings[lookup.ranking].rankedBooks
          IN  IF lookup.arg \in 1..Len(rankedBooks)
              THEN lookup.result = <<rankedBooks[lookup.arg]>>
              ELSE lookup.result = Null

\* getBookRank has returned the last position of a snapshot of at least two books,
\* and the snapshot leaves a book out.
C20_Witness ==
    /\ lookup.kind = "getBookRank"
    /\ Len(rankings[lookup.ranking].rankedBooks) >= 2
    /\ lookup.result = <<Len(rankings[lookup.ranking].rankedBooks)>>
    /\ BookIds \ RankedIds(rankings[lookup.ranking].rankedBooks) # {}

(***************************************************************************)
(* Claims about the replay followed by a snapshot (SpecEndToEnd).          *)
(***************************************************************************)
\* The number of records of the ledger the book has won.
Wins(id) == Cardinality({k \in 1..Len(comparisons) : comparisons[k].winner = id})

\* C21: from three unrated books A, B, C with the records A beats B, B beats C and
\* A beats C in any order, one replay followed by a snapshot gives a snapshot that
\* lists A, B, C in this order with strictly decreasing ratings.
C21_EndToEnd ==
    (replays = 1 /\ Len(comparisons) = 3) =>
        \A r \in 1..Len(rankings) :
            LET rankedBooks == rankings[r].rankedBooks
            IN  /\ Len(rankedBooks) = 3
                /\ Wins(rankedBooks[1].id) = 2
                /\ Wins(rankedBooks[2].id) = 1
                /\ Wins(rankedBooks[3].id) = 0
                /\ rankedBooks[1].rating[1] > rankedBooks[2].rating[1]
                /\ rankedBooks[2].rating[1] > rankedBooks[3].rating[1]

\* A snapshot was stored after the one replay, for a ledger in which the book with
\* the highest id won twice and the last record is not the one of the top book.
C21_Witness ==
    /\ replays = 1
    /\ NoTaskInFlight
    /\ Len(rankings) = 1
    /\ Len(comparisons) = 3
    /\ Wins(NumBooks) = 2
    /\ comparisons[3].winner # NumBooks
    /\ rankings[1].rankedBooks[1].id = NumBooks

(***************************************************************************)
(* Claims about the import (SpecImport).                                   *)
(***************************************************************************)
\* C22: ids are positive and monotonically assigned: every id a step gives to a
\* new book is greater than every id given out before, so the id of a deleted book
\* is never given to another book and no record of the ledger made for a deleted
\* book comes to refer to a new one.
C22_IdsMonotonic ==
    [][\A id \in DOMAIN books' \ DOMAIN books :
          /\ id > 0
          /\ \A old \in DOMAIN assigned : id > old
          /\ \A k \in 1..Len(comparisons) :
                comparisons[k].bookA # id /\ comparisons[k].bookB # id]_vars

(***************************************************************************)
(* Claims about the sync queue.                                            *)
(***************************************************************************)
ActivePasses == {p \in Passes : pass[p].pc # "idle"}

NoPassActive == ActivePasses = {}

InQueue(q, payload) == \E k \in 1..Len(q) : q[k].payload = payload

\* C4: every logical write that has entered the queue is attempted by process()
\* at most 3 times while it keeps failing, whatever its type, and no retry counter
\* in the queue exceeds 3.
C4_RetryCeiling ==
    /\ \A n \in Payloads : hist.attempts[n] <= RetryCeiling
    /\ \A k \in 1..Len(queue) : queue[k].retries <= RetryCeiling

\* What getStatus() lets a caller count as permanently failed: the operations it
\* lists whose retry counter has reached the ceiling.
PermanentFailuresReported ==
    Cardinality({k \in DOMAIN getStatus.operations :
                    getStatus.operations[k].retries >= RetryCeiling})

\* C5: between passes, the number of permanent failures the status query reports
\* equals the number of operations dropped at the retry ceiling.
C5_DroppedReported ==
    NoPassActive => PermanentFailuresReported = hist.dropped

\* C6: at most one pass over the queue is active at any time, and a process() call
\* made while a pass is active or while offline starts no pass and leaves the
\* queue, the retry counters, the stored blob, the other pass and every remote
\* write as they were.
C6_ProcessNoOp ==
    /\ [](Cardinality(ActivePasses) <= 1)
    /\ [][\A p \in Passes :
            (/\ pass[p].pc = "idle"
             /\ pass'[p] # pass[p]
             /\ (ActivePasses # {} \/ ~online))
            => /\ pass'[p].pc = "idle"
               /\ \A q \in Passes \ {p} : pass'[q] = pass[q]
               /\ UNCHANGED <<queue, storage, isProcessing, direct, hist>>]_vars

\* A pass is waiting for a remote write and a process() call made meanwhile has
\* returned at its guard.
C6_Witness ==
    \E p, q \in Passes :
        /\ p # q
        /\ pass[p].pc = "write"
        /\ pass[q].pc = "idle"
        /\ pass[q].last = "busy"
        /\ isProcessing
        /\ Len(queue) > 0

\* C7: a call of appendBooksToSheets or updateBookInSheets made offline, or whose
\* remote write failed while online with a network error or a 5xx status, returns
\* 'queued' and has put exactly one operation with its type and payload in the queue
\* and in the stored blob.
C7_FailureQueued ==
    (/\ direct.pc = "done"
     /\ \/ direct.offlineAtCall
        \/ direct.failure \in {"network", "5xx"} /\ direct.onlineAtFailure)
    => /\ direct.result = "queued"
       /\ direct.inQueue = 1
       /\ direct.inStorage = 1

\* C8: no remote write is in flight, or waiting to be tried again, for an operation
\* whose write has failed with 401/403 since the user last authenticated.
C8_AuthFailureNotRetried ==
    /\ \A p \in Passes :
          pass[p].pc \in {"write", "backoff"}
             => queue[pass[p].i].payload \notin hist.authFailed
    /\ direct.pc \in {"write", "backoff"} => direct.payload \notin hist.authFailed

\* C9: between passes, every operation whose write failed with 401/403 in a pass
\* and has not succeeded since is in the queue and in the stored blob.
C9_AuthFailureHeld ==
    NoPassActive =>
        \A n \in hist.authHeld : InQueue(queue, n) /\ InQueue(loadFromStorage(storage), n)

(***************************************************************************)
(* Claims about the order and the durability of the queue (SpecRestart).   *)
(***************************************************************************)
\* s is t with some of its elements removed (the order kept).
RECURSIVE IsSubSeq(_, _)
IsSubSeq(s, t) ==
    IF s = <<>> THEN TRUE
    ELSE IF t = <<>> THEN FALSE
    ELSE IF Head(s) = Head(t) THEN IsSubSeq(Tail(s), Tail(t))
    ELSE IsSubSeq(s, Tail(t))

\* C23: the queue is first-in first-out.  While a pass runs, its position moves
\* from one operation to the next one in queue order, the operation a write is
\* started for is the one at that position, and the operations queued so far keep
\* their places; when the pass ends, the operations that remain are operations of
\* the queue in the order they had in it.
C23_Fifo ==
    [][\A p \in Passes :
          /\ (pass[p].pc # "idle" /\ pass'[p].pc # "idle")
                => /\ pass'[p].i \in {pass[p].i, pass[p].i + 1}
                   /\ pass'[p].pc = "write" => pass'[p].i \in 1..Len(queue')
                   /\ Len(queue') >= Len(queue)
                   /\ \A k \in 1..Len(queue) :
                         /\ queue'[k].type = queue[k].type
                         /\ queue'[k].payload = queue[k].payload
                   /\ IsSubSeq(pass[p].remainingOps, pass'[p].remainingOps)
                   /\ IsSubSeq(pass'[p].remainingOps, queue')
          /\ (pass[p].pc # "idle" /\ pass'[p].pc = "idle")
                => /\ pass[p].i = Len(queue) + 1
                   /\ IsSubSeq(queue', queue)]_vars

\* Between passes, two operations that both failed in the one pass made since the
\* page was loaded remain, the earlier one first.
C23_Witness ==
    /\ NoPassActive
    /\ Len(queue) = 2
    /\ queue[1].retries = 2
    /\ queue[2].retries = 1
    /\ hist.attempts[1] = 2
    /\ hist.dropped = 0

C25_OnlineAtAttempt ==
    [][/\ \A p \in Passes : (pass[p].pc # "write" /\ pass'[p].pc = "write") => online
       /\ (direct.pc # "write" /\ direct'.pc = "write") => online]_vars

(***************************************************************************)
(* Claims about the exceptions of a pass (SpecAbsorb).                     *)
(***************************************************************************)
\* C26: process() never lets an exception reach its caller, whether a remote
\* write fails, an operation has a type executeOperation does not know or the
\* blob cannot be written; every pass runs to its end, so that between passes
\* getStatus reports that no pass is in progress.
C26_NoThrow ==
    /\ \A p \in Passes : pass[p].last # "threw"
    /\ NoPassActive => ~getStatus.isProcessing

\* A pass has ended in which an operation of an unknown type was dropped at the
\* retry ceiling and a write was rejected, and the blob could not be written.
C26_Witness ==
    /\ NoPassActive
    /\ hist.dropped > 0
    /\ hist.attempts[1] > 0
    /\ storage # saveToStorage(queue)
    /\ \E k \in 1..Len(storage) : parse(storage[k]).type = "delete_book"

(***************************************************************************)
(* Claims about the histories (SpecRankingHistory, SpecComparisonHistory). *)
(***************************************************************************)
\* C27: getLatestRanking returns null when no snapshot is stored, and else a
\* stored snapshot whose timestamp is at least that of every stored snapshot;
\* getAllRankingsHistory(limit) returns stored snapshots in non-increasing order
\* of timestamp and, when a limit is given, at most limit of them.
C27_RankingHistory ==
    (lookup.ranking = Len(rankings)) =>
        /\ lookup.kind = "getLatestRanking" =>
              IF rankings = <<>> THEN lookup.result = Null
              ELSE /\ lookup.result # Null
                   /\ \E k \in 1..Len(rankings) : rankings[k] = lookup.result[1]
                   /\ \A k \in 1..Len(rankings) :
                         lookup.result[1].timestamp >= rankings[k].timestamp
        /\ lookup.kind = "getAllRankingsHistory" =>
              /\ \A k \in 1..Len(lookup.result) :
                    \E j \in 1..Len(rankings) : rankings[j] = lookup.result[k]
              /\ \A k \in 1..(Len(lookup.result) - 1) :
                    lookup.result[k].timestamp >= lookup.result[k + 1].timestamp
              /\ lookup.arg # Null => Len(lookup.result) <= lookup.arg[1]

\* C28: getComparisonHistory(bookId, limit) returns comparisons of the ledger that
\* involve bookId, in non-increasing order of timestamp: all of them when no limit
\* is given, and for a limit >= 0 the min(limit, total) newest of them.
C28_ComparisonHistory ==
    lookup.kind = "getComparisonHistory" =>
        LET bookId == lookup.arg[1]
            limit == lookup.arg[2]
            result == lookup.result
            involved == {k \in 1..Len(comparisons) :
                            comparisons[k].bookA = bookId \/ comparisons[k].bookB = bookId}
            total == Cardinality(involved)
            returned == {k \in involved : \E j \in 1..Len(result) : result[j] = comparisons[k]}
        IN  /\ \A j \in 1..Len(result) : \E k \in involved : comparisons[k] = result[j]
            /\ \A j \in 1..(Len(result) - 1) : result[j].timestamp >= result[j + 1].timestamp
            /\ Cardinality(returned) = Len(result)
            /\ limit = Null => Len(result) = total
            /\ limit # Null =>
                  /\ Len(result) = (IF limit[1] < total THEN limit[1] ELSE total)
                  /\ \A k \in involved \ returned : \A j \in 1..Len(result) :
                        comparisons[k].timestamp <= result[j].timestamp

C30_EqualRatings ==
    /\ (lookup.kind = "updateRatings" /\ lookup.arg[1] = lookup.arg[2]) =>
          LET r == lookup.arg[1]
          IN  /\ lookup.arg[3] = 2 => lookup.result = [ratingA |-> r + 16, ratingB |-> r - 16]
              /\ lookup.arg[3] = 0 => lookup.result = [ratingA |-> r - 16, ratingB |-> r + 16]
              /\ lookup.arg[3] = 1 => lookup.result = [ratingA |-> r, ratingB |-> r]
    /\ lookup.kind = "testEloCalculations" =>
          lookup.result[1] = [ratingA |-> 1516, ratingB |-> 1484]

\* updateRatings has been applied to two equal ratings other than the initial
\* one, book B winning.
C30_Witness ==
    /\ lookup.kind = "updateRatings"
    /\ lookup.arg[1] = lookup.arg[2]
    /\ lookup.arg[1] # INITIAL_RATING
    /\ lookup.arg[3] = 0
    /\ lookup.result.ratingB = lookup.arg[1] + 16

(***************************************************************************)
(* Claims about the end of a pass and about repeated writes.               *)
(***************************************************************************)
\* C31: a pass is bounded by the operations that were queued: no step of a pass
\* in progress lengthens the queue the pass walks, so that the pass reaches the
\* end of the queue and resets isProcessing, also when a write keeps failing or
\* the connectivity signal turns false in the middle of the pass.
C31_BoundedPass ==
    [][\A p \in Passes :
          (pass[p].pc # "idle" /\ pass'[p] # pass[p]) => Len(queue') <= Len(queue)]_vars

\* C32: an operation whose remote write has succeeded is not written to the
\* remote store again, also when the page is loaded again in the middle of a
\* pass: the sheet carries out the request of an operation at most once.
C32_WrittenOnce ==
    \A j \in 1..Len(remote), k \in 1..Len(remote) : remote[j] = remote[k] => j = k

C34_AppendedOnce ==
    \A b \in DOMAIN books :
        Cardinality({k \in 1..Len(remote) :
                        remote[k] = [type |-> "append_books", payload |-> b]}) <= 1

(* Claims about the replay and the library. *)
\* C35: a replay does not undo a delete made by another task while it was
\* suspended at a storage call: the final loop of processAllComparisons saves
\* ratings of items the store holds, and never brings back an item that the
\* store no longer holds.
C35_NoResurrection ==
    [][(\E c \in Callers : calls[c].pc = "persist" /\ calls'[c] # calls[c])
          => DOMAIN books' \subseteq DOMAIN books]_vars

(* Claims about retryWithBackoff. *)
\* C36: a retryWithBackoff call invokes the operation at most maxRetries + 1
\* times, returns at the first invocation that succeeds, and when it throws,
\* every invocation it made having failed, throws the error of the last
\* invocation (after a 401 or 403 that error, and no further invocation).
C36_RethrowsLast ==
    /\ retry.invocations <= maxRetries + 1
    /\ retry.outcome = "returned" => retry.pc = "done"
    /\ retry.outcome = "thrown" => retry.thrown = retry.lastError

\* The parts of C36 on the number of invocations, on the first success and on
\* a 401 or 403: they hold.
C36_CeilingAndAuth ==
    /\ retry.invocations <= maxRetries + 1
    /\ retry.invocations = retry.attempt + (IF retry.pc \in {"wait", "done"} THEN 1 ELSE 0)
    /\ retry.outcome = "returned" => retry.pc = "done"
    /\ (retry.pc = "wait" => retry.lastError.status \notin {401, 403})
    /\ (retry.outcome = "thrown" /\ retry.lastError.status \in {401, 403})
          => retry.thrown = retry.lastError
    /\ (retry.outcome = "thrown" /\ retry.invocations = maxRetries + 1)
          => retry.thrown = retry.lastError

(* Claims about a repeated import and about the add-book form. *)
\* C37: importing the same sheet rows again leaves the store with the items of
\* one import: the store holds one item per distinct case-insensitive
\* title+author key.
C37_OnePerKey ==
    \A a \in DOMAIN books, b \in DOMAIN books :
        BookKey(books[a].title, "Herbert") = BookKey(books[b].title, "Herbert") => a = b

\* C38: a submit of the add-book form with a non-empty title and author adds
\* exactly one item to the store, under a positive id that no stored item had
\* and without a rating, and the status line reports the success.
C38_AddsOneBook ==
    [][(form' # form /\ trim(form'.title) # "" /\ trim(form'.author) # "")
          => /\ \E id \in DOMAIN books' \ DOMAIN books :
                   /\ id > 0
                   /\ DOMAIN books' = DOMAIN books \cup {id}
                   /\ books'[id].rating = NoRating
             /\ form'.status = "Book added successfully!"]_vars

=============================================================================
